---------------------------- MODULE Spec2Model ----------------------------
(***************************************************************************)
(* Constraint template import of the VAMS backend                          *)
(* (backend/handlers/auth/authConstraintsTemplateService.py and            *)
(* backend/models/roleConstraints.py).                                     *)
(*                                                                         *)
(* Text is modelled as a sequence of one-character strings, so that        *)
(* str.replace, the regular expression of find_unreplaced_variables and    *)
(* the f-string that builds an item key are computed character by          *)
(* character.  A Python dict whose iteration order matters                 *)
(* (variableValues) is a sequence of <<name, value>> pairs in insertion    *)
(* order; a dict with a fixed set of keys is a record, and a key that may  *)
(* be absent is a field that may be missing from the record's DOMAIN.      *)
(* Timestamps (datetime.utcnow) are left out of constraints and items: no  *)
(* operation reads them.                                                   *)
(***************************************************************************)
EXTENDS Integers, Sequences, FiniteSets, TLC

(***************************************************************************)
(* Bounds of the model.                                                    *)
(***************************************************************************)
\* longest constraint list of a template
MaxConstraints == 2
\* number of times the handler is invoked in one behaviour
MaxInvocations == 2
\* longest groupPermissions list given to _transform_to_denormalized_format
MaxGroupPerms == 3
\* longest userPermissions list given to _transform_to_denormalized_format
MaxUserPerms == 1

(***************************************************************************)
(* Text.                                                                   *)
(***************************************************************************)
\* the characters the model's texts are made of, in code-point order
Alphabet ==
    <<"#", "+", "-", "0", "1", "2", "3", "4", "5", "6", "7", "8", "9",
      "A", "B", "D", "E", "G", "L", "M", "N", "O", "P", "R", "S", "T", "X",
      "_", "a", "b", "c", "d", "e", "f", "g", "i", "k", "l", "n", "o", "p",
      "q", "r", "s", "t", "u", "w", "x", "y", "z", "{", "}">>

\* ord(c): the position of the character in code-point order
Ord(c) == CHOOSE i \in 1..Len(Alphabet) : Alphabet[i] = c

\* \w of the re module: letters, digits and the underscore
IsWordChar(c) == c \notin {"#", "+", "-", "{", "}"}

\* s[i:i+len(t)] == t
MatchesAt(s, i, t) ==
    /\ i + Len(t) - 1 <= Len(s)
    /\ \A k \in 1..Len(t) : s[i + k - 1] = t[k]

\* str.__lt__: lexicographic order on code points
StrLess(a, b) ==
    \E i \in 1..(Len(b)) :
        /\ \A k \in 1..(i - 1) : k <= Len(a) /\ a[k] = b[k]
        /\ \/ i = Len(a) + 1
           \/ i <= Len(a) /\ Ord(a[i]) < Ord(b[i])

RECURSIVE sorted(_)
\* sorted(set of str): the ascending list of the elements
sorted(S) ==
    IF S = {} THEN <<>>
    ELSE LET least == CHOOSE x \in S : \A y \in S \ {x} : StrLess(x, y)
         IN  <<least>> \o sorted(S \ {least})

RECURSIVE ReplaceFrom(_, _, _, _)
\* str.replace scanning from position i: leftmost occurrences, not
\* overlapping, the inserted text is not scanned again
ReplaceFrom(s, i, old, new) ==
    IF i > Len(s) THEN <<>>
    ELSE IF MatchesAt(s, i, old)
         THEN new \o ReplaceFrom(s, i + Len(old), old, new)
         ELSE <<s[i]>> \o ReplaceFrom(s, i + 1, old, new)

\* s.replace(old, new), old not empty; a text old does not occur in is
\* returned as it is
Replace(s, old, new) ==
    IF \A i \in 1..Len(s) : ~MatchesAt(s, i, old) THEN s
    ELSE ReplaceFrom(s, 1, old, new)

\* Placeholder without the braces: the bare name of the variable
Placeholder_bare(var_name) == var_name

\* "{{" + var_name + "}}"
Placeholder(var_name) == <<"{", "{">> \o var_name \o <<"}", "}">>

(***************************************************************************)
(* substitute_variables and find_unreplaced_variables.                     *)
(* A criterion value is [str |-> text] or [list |-> <<text, ...>>]         *)
(* (Union[str, List[str]]).                                                *)
(***************************************************************************)
RECURSIVE replace_from_var(_, _, _)
\* the loop of replace_in_string from the k-th entry of var_values on: each
\* variable is replaced in the text the earlier replacements produced
replace_from_var(s, var_values, k) ==
    IF k > Len(var_values) THEN s
    ELSE replace_from_var(
             Replace(s, Placeholder(var_values[k][1]), var_values[k][2]),
             var_values, k + 1)

\* replace_in_string that returns after the first variable of the map
replace_in_string_first_only(s, var_values) ==
    IF var_values = <<>> THEN s
    ELSE Replace(s, Placeholder(var_values[1][1]), var_values[1][2])

\* replace_in_string of substitute_variables, for a str
replace_in_string(s, var_values) == replace_from_var(s, var_values, 1)

\* the value of a criterion: a str is replaced, a list is replaced element
\* by element
substitute_value(v, var_values) ==
    IF "str" \in DOMAIN v
    THEN [str |-> replace_in_string(v.str, var_values)]
    ELSE [list |-> [i \in 1..Len(v.list) |->
                        replace_in_string(v.list[i], var_values)]]

\* a dict inside a list of the constraint: a criterion (field, operator,
\* value) or a permission (action, and type when it was set)
substitute_item(item, var_values) ==
    [k \in DOMAIN item |->
        IF k = "value" THEN substitute_value(item[k], var_values)
        ELSE replace_in_string(item[k], var_values)]

substitute_list(l, var_values) ==
    [i \in 1..Len(l) |-> substitute_item(l[i], var_values)]

\* one constraint dict of constraints_data
substitute_constraint(c, var_values) ==
    [name             |-> replace_in_string(c.name, var_values),
     description      |-> replace_in_string(c.description, var_values),
     objectType       |-> replace_in_string(c.objectType, var_values),
     criteriaAnd      |-> substitute_list(c.criteriaAnd, var_values),
     criteriaOr       |-> substitute_list(c.criteriaOr, var_values),
     groupPermissions |-> substitute_list(c.groupPermissions, var_values)]

substitute_variables(constraints_data, var_values) ==
    [i \in 1..Len(constraints_data) |->
        substitute_constraint(constraints_data[i], var_values)]

\* the end of the run of \w characters that starts at position j
RECURSIVE WordEnd(_, _)
WordEnd(s, j) ==
    IF j <= Len(s) /\ IsWordChar(s[j]) THEN WordEnd(s, j + 1) ELSE j

RECURSIVE FindAllFrom(_, _)
\* pattern.findall(s) from position i on, pattern \{\{(\w+)\}\}: the scan
\* takes the leftmost match, \w+ takes the whole run of word characters
\* (giving one back cannot help, "}" is no word character), and goes on
\* behind the match
FindAllFrom(s, i) ==
    IF i > Len(s) THEN {}
    ELSE IF MatchesAt(s, i, <<"{", "{">>)
         THEN LET j == WordEnd(s, i + 2)
              IN  IF j > i + 2 /\ MatchesAt(s, j, <<"}", "}">>)
                  THEN {SubSeq(s, i + 2, j - 1)} \cup FindAllFrom(s, j + 2)
                  ELSE FindAllFrom(s, i + 1)
         ELSE FindAllFrom(s, i + 1)

\* scan_value of find_unreplaced_variables on a str
scan_str(s) == FindAllFrom(s, 1)

\* scan_criterion_value that does not descend into a list
scan_criterion_value_str_only(v) ==
    IF "str" \in DOMAIN v THEN scan_str(v.str) ELSE {}

\* scan_value on the value of a criterion
scan_criterion_value(v) ==
    IF "str" \in DOMAIN v THEN scan_str(v.str)
    ELSE UNION {scan_str(v.list[i]) : i \in 1..Len(v.list)}

\* scan_value on a dict of a list
scan_item(item) ==
    UNION {IF k = "value" THEN scan_criterion_value(item[k])
           ELSE scan_str(item[k]) : k \in DOMAIN item}

\* scan_value on a list of dicts
scan_list(l) == UNION {scan_item(l[i]) : i \in 1..Len(l)}

\* scan_value on every value of one constraint dict
scan_constraint(c) ==
    scan_str(c.name) \cup scan_str(c.description) \cup scan_str(c.objectType)
    \cup scan_list(c.criteriaAnd) \cup scan_list(c.criteriaOr)
    \cup scan_list(c.groupPermissions)

find_unreplaced_variables(constraints_data) ==
    UNION {scan_constraint(constraints_data[i]) :
               i \in 1..Len(constraints_data)}

(***************************************************************************)
(* The closed vocabulary (common.constants) and the object-name check      *)
(* (common.validators).                                                    *)
(***************************************************************************)
ALLOWED_CONSTRAINT_OBJECT_TYPES == {<<"a", "s", "s", "e", "t">>}

ALLOWED_CONSTRAINT_OPERATORS ==
    {<<"e", "q", "u", "a", "l", "s">>, <<"c", "o", "n", "t", "a", "i", "n", "s">>}

ALLOWED_CONSTRAINT_PERMISSIONS == {<<"G", "E", "T">>, <<"P", "O", "S", "T">>}

ALLOWED_CONSTRAINT_PERMISSION_TYPES ==
    {<<"a", "l", "l", "o", "w">>, <<"d", "e", "n", "y">>}

\* validate({... 'validator': 'OBJECT_NAME'}): a non-empty name of word
\* characters and hyphens
object_name_valid(s) ==
    /\ s # <<>>
    /\ \A i \in 1..Len(s) : IsWordChar(s[i]) \/ s[i] = "-"

(***************************************************************************)
(* ImportConstraintsTemplateRequestModel.validate_template_import.         *)
(* The parsed body is a record [variables, variableValues, constraints];   *)
(* a variable declaration is [name, required] with a field default when    *)
(* the default is not None; a permission is [action] with a field type     *)
(* when the request set it.  The field constraints of the models           *)
(* (min_length, max_length) hold of every body the model draws.            *)
(***************************************************************************)
ROLE_NAME == <<"R", "O", "L", "E", "_", "N", "A", "M", "E">>

\* the value the model raises no error with
NoError == [rule |-> "none"]

\* name in variable_values
HasVar(variable_values, name) ==
    \E k \in 1..Len(variable_values) : variable_values[k][1] = name

\* variable_values[name]
VarValue(variable_values, name) ==
    variable_values[CHOOSE k \in 1..Len(variable_values) :
                        variable_values[k][1] = name][2]

RECURSIVE check_variables(_, _, _)
\* the loop over the declared variables from the k-th on: the mapping with
\* the defaults filled in, or the error of the first required variable
\* that has neither a value nor a default
check_variables(variables, variable_values, k) ==
    IF k > Len(variables) THEN [error |-> NoError, values |-> variable_values]
    ELSE LET var_def == variables[k]
         IN  IF var_def.required /\ ~HasVar(variable_values, var_def.name)
             THEN IF "default" \in DOMAIN var_def
                  THEN check_variables(
                           variables,
                           Append(variable_values,
                                  <<var_def.name, var_def.default>>),
                           k + 1)
                  ELSE [error  |-> [rule |-> "required_variable",
                                    name |-> var_def.name],
                        values |-> variable_values]
             ELSE check_variables(variables, variable_values, k + 1)

\* perm.type of the parsed model: the field's default when the request did
\* not set it
perm_type(perm) ==
    IF "type" \in DOMAIN perm THEN perm.type ELSE <<"a", "l", "l", "o", "w">>

RECURSIVE check_permissions_type_first(_, _)
\* check_permissions that looks at the type of a permission before its
\* action
check_permissions_type_first(perms, k) ==
    IF k > Len(perms) THEN NoError
    ELSE IF perm_type(perms[k]) \notin ALLOWED_CONSTRAINT_PERMISSION_TYPES
         THEN [rule |-> "permission_type", value |-> perm_type(perms[k])]
         ELSE IF perms[k].action \notin ALLOWED_CONSTRAINT_PERMISSIONS
              THEN [rule |-> "permission_action", value |-> perms[k].action]
              ELSE check_permissions_type_first(perms, k + 1)

RECURSIVE check_permissions(_, _)
\* the loop over constraint.groupPermissions from the k-th on
check_permissions(perms, k) ==
    IF k > Len(perms) THEN NoError
    ELSE IF perms[k].action \notin ALLOWED_CONSTRAINT_PERMISSIONS
         THEN [rule |-> "permission_action", value |-> perms[k].action]
         ELSE IF perm_type(perms[k]) \notin ALLOWED_CONSTRAINT_PERMISSION_TYPES
              THEN [rule |-> "permission_type", value |-> perm_type(perms[k])]
              ELSE check_permissions(perms, k + 1)

RECURSIVE check_operators(_, _)
\* the loop over criteriaAnd + criteriaOr from the k-th on
check_operators(criteria, k) ==
    IF k > Len(criteria) THEN NoError
    ELSE IF criteria[k].operator \notin ALLOWED_CONSTRAINT_OPERATORS
         THEN [rule |-> "operator", value |-> criteria[k].operator]
         ELSE check_operators(criteria, k + 1)

\* the body of the loop over the constraints, for one constraint
check_constraint(constraint) ==
    IF constraint.objectType \notin ALLOWED_CONSTRAINT_OBJECT_TYPES
    THEN [rule |-> "objectType", value |-> constraint.objectType]
    ELSE IF constraint.criteriaAnd = <<>> /\ constraint.criteriaOr = <<>>
         THEN [rule |-> "criteria", name |-> constraint.name]
         ELSE LET op == check_operators(
                            constraint.criteriaAnd \o constraint.criteriaOr, 1)
              IN  IF op # NoError THEN op
                  ELSE check_permissions(constraint.groupPermissions, 1)

\* check_constraints that looks at the first constraint only
check_constraints_first_only(constraints, k) ==
    check_constraint(constraints[1])

RECURSIVE check_constraints(_, _)
\* the loop over the constraints from the k-th on
check_constraints(constraints, k) ==
    IF k > Len(constraints) THEN NoError
    ELSE LET e == check_constraint(constraints[k])
         IN  IF e # NoError THEN e ELSE check_constraints(constraints, k + 1)

\* validated_constraints that takes the constraints as the substitution
\* leaves them
validated_constraints_substituted(values) ==
    substitute_variables(values.constraints, values.variableValues)

\* "constraints = values.get('constraints', [])": the constraints the rules
\* are checked on are those of the parsed request
validated_constraints(values) == values.constraints

\* validate_template_import(values): [error, values], error the ValueError
\* raised (NoError when none is), values the variableValues mapping as the
\* validator leaves it
validate_template_import(values) ==
    LET variable_values == values.variableValues
        checked == check_variables(values.variables, variable_values, 1)
    IN  IF ~HasVar(variable_values, ROLE_NAME)
        THEN [error  |-> [rule |-> "role_name_missing"],
              values |-> variable_values]
        ELSE IF ~object_name_valid(VarValue(variable_values, ROLE_NAME))
        THEN [error  |-> [rule |-> "role_name_format"],
              values |-> variable_values]
        ELSE IF checked.error # NoError THEN checked
        ELSE IF validated_constraints(values) = <<>>
        THEN [error  |-> [rule |-> "no_constraints"],
              values |-> checked.values]
        ELSE [error  |-> check_constraints(validated_constraints(values), 1),
              values |-> checked.values]

(***************************************************************************)
(* build_constraint_data and _transform_to_denormalized_format.            *)
(* uuid.uuid4() is modelled by a counter of the identifiers handed out so  *)
(* far: the n-th call returns an identifier no earlier call returned.      *)
(***************************************************************************)
\* str(uuid.uuid4()) of the n-th call: one unit of text without "#"
uuid4(n) == <<ToString(n)>>

\* json.dumps(v): the serialized blob of v
json_dumps(v) == [json |-> v]

\* constraint_identifier derived from the name of the constraint
constraint_identifier_from_name(constraint, n) == constraint.name

\* the constraint identifier build_constraint_data gives the constraint,
\* n the number of identifiers handed out before the call
constraint_identifier(constraint, n) == uuid4(n + 1)

\* build_group_permissions that takes the groupId from the template's
\* permission, its action
build_group_permissions_of_template(perms, role_name, n) ==
    [k \in 1..Len(perms) |->
        [id             |-> uuid4(n + 1 + k),
         groupId        |-> perms[k].action,
         permission     |-> perms[k].action,
         permissionType |-> perms[k].type]]

\* the group_permissions list of build_constraint_data: the k-th permission
\* gets the (n + 1 + k)-th identifier, groupId is role_name
build_group_permissions(perms, role_name, n) ==
    [k \in 1..Len(perms) |->
        [id             |-> uuid4(n + 1 + k),
         groupId        |-> role_name,
         permission     |-> perms[k].action,
         permissionType |-> perms[k].type]]

\* build_constraint_data(constraint, role_name, claims_and_roles), n the
\* number of identifiers handed out before the call: [raised, uuids, data].
\* perm['type'] raises KeyError for a permission without the key type
build_constraint_data(constraint, role_name, username, n) ==
    LET perms == constraint.groupPermissions
        unset == {k \in 1..Len(perms) : "type" \notin DOMAIN perms[k]}
    IN  IF unset # {}
        THEN [raised |-> "KeyError",
              uuids  |-> 1 + (CHOOSE k \in unset : \A j \in unset : k <= j)]
        ELSE [raised |-> "none",
              uuids  |-> 1 + Len(perms),
              data   |->
                [identifier       |-> constraint_identifier(constraint, n),
                 name             |-> constraint.name,
                 description      |-> constraint.description,
                 objectType       |-> constraint.objectType,
                 criteriaAnd      |-> constraint.criteriaAnd,
                 criteriaOr       |-> constraint.criteriaOr,
                 groupPermissions |->
                     build_group_permissions(perms, role_name, n),
                 userPermissions  |-> <<>>,
                 createdBy        |-> username,
                 modifiedBy       |-> username]]

\* the base_item shared by all denormalized items of a constraint
base_item(constraint_data) ==
    [name             |-> constraint_data.name,
     description      |-> constraint_data.description,
     objectType       |-> constraint_data.objectType,
     criteriaAnd      |-> json_dumps(constraint_data.criteriaAnd),
     criteriaOr       |-> json_dumps(constraint_data.criteriaOr),
     groupPermissions |-> json_dumps(constraint_data.groupPermissions),
     userPermissions  |-> json_dumps(constraint_data.userPermissions),
     createdBy        |-> constraint_data.createdBy,
     modifiedBy       |-> constraint_data.modifiedBy]

\* perm.get(key): the value, or the empty text (falsy, like None) when the
\* key is absent
dict_get(perm, key) == IF key \in DOMAIN perm THEN perm[key] ELSE <<>>

\* group_key that leaves the group out of the key
group_key_without_group(base_constraint_id, group_id) ==
    base_constraint_id \o <<"#", "g", "r", "o", "u", "p", "#">>

\* f"{base_constraint_id}#group#{group_id}"
group_key(base_constraint_id, group_id) ==
    base_constraint_id \o <<"#", "g", "r", "o", "u", "p", "#">> \o group_id

\* f"{base_constraint_id}#user#{user_id}"
user_key(base_constraint_id, user_id) ==
    base_constraint_id \o <<"#", "u", "s", "e", "r", "#">> \o user_id

\* emits_item without the check against the grantees seen so far
emits_item_per_permission(grantee_id, unique_ids) == grantee_id # <<>>

\* whether the loops of _transform_to_denormalized_format emit an item for
\* the grantee: "if group_id and group_id not in unique_group_ids"
emits_item(grantee_id, unique_ids) ==
    grantee_id # <<>> /\ grantee_id \notin unique_ids

RECURSIVE group_items(_, _, _, _)
\* the loop over group_permissions from the k-th on, unique_group_ids the
\* groupIds seen so far
group_items(constraint_data, group_permissions, k, unique_group_ids) ==
    IF k > Len(group_permissions) THEN <<>>
    ELSE LET group_id == dict_get(group_permissions[k], "groupId")
         IN  IF emits_item(group_id, unique_group_ids)
             THEN <<base_item(constraint_data) @@
                    [constraintId |->
                         group_key(constraint_data.identifier, group_id),
                     groupId |-> group_id]>>
                  \o group_items(constraint_data, group_permissions, k + 1,
                                 unique_group_ids \cup {group_id})
             ELSE group_items(constraint_data, group_permissions, k + 1,
                              unique_group_ids)

RECURSIVE user_items(_, _, _, _)
\* the loop over user_permissions from the k-th on, unique_user_ids the
\* userIds seen so far
user_items(constraint_data, user_permissions, k, unique_user_ids) ==
    IF k > Len(user_permissions) THEN <<>>
    ELSE LET user_id == dict_get(user_permissions[k], "userId")
         IN  IF emits_item(user_id, unique_user_ids)
             THEN <<base_item(constraint_data) @@
                    [constraintId |->
                         user_key(constraint_data.identifier, user_id),
                     userId |-> user_id]>>
                  \o user_items(constraint_data, user_permissions, k + 1,
                                unique_user_ids \cup {user_id})
             ELSE user_items(constraint_data, user_permissions, k + 1,
                             unique_user_ids)

\* bare_item keyed by the name of the constraint
bare_item_keyed_by_name(constraint_data) ==
    base_item(constraint_data) @@
    [constraintId |-> constraint_data.name]

\* the item written when no permission yields an item
bare_item(constraint_data) ==
    base_item(constraint_data) @@
    [constraintId |-> constraint_data.identifier]

\* with_fallback that adds the bare item whatever the loops produced
with_fallback_always(constraint_data, grantee_items) ==
    grantee_items \o <<bare_item(constraint_data)>>

\* the items list at the return, grantee_items the items of the two loops
with_fallback(constraint_data, grantee_items) ==
    IF Len(grantee_items) = 0 THEN <<bare_item(constraint_data)>>
    ELSE grantee_items

_transform_to_denormalized_format(constraint_data) ==
    with_fallback(
        constraint_data,
        group_items(constraint_data, constraint_data.groupPermissions, 1, {})
        \o user_items(constraint_data, constraint_data.userPermissions, 1, {}))

(***************************************************************************)
(* The requests the model draws.                                           *)
(***************************************************************************)
DB == <<"D", "B">>

asset == <<"a", "s", "s", "e", "t">>

equals == <<"e", "q", "u", "a", "l", "s">>

allow == <<"a", "l", "l", "o", "w">>

GET == <<"G", "E", "T">>

\* a well-formed constraint with two permissions, its name and its
\* criterion value written with placeholders
ConstraintGood ==
    [name             |-> Placeholder(ROLE_NAME) \o <<"-", "a">>,
     description      |-> <<"d">>,
     objectType       |-> asset,
     criteriaAnd      |-> <<[field    |-> <<"d", "b">>,
                             operator |-> equals,
                             value    |-> [str |-> Placeholder(DB)]]>>,
     criteriaOr       |-> <<>>,
     groupPermissions |-> <<[action |-> GET, type |-> allow],
                            [action |-> <<"P", "O", "S", "T">>,
                             type   |-> <<"d", "e", "n", "y">>]>>]

\* a well-formed constraint without permissions, its criterion value a list
ConstraintNoGrantee ==
    [name             |-> <<"b">>,
     description      |-> <<"d">>,
     objectType       |-> asset,
     criteriaAnd      |-> <<>>,
     criteriaOr       |-> <<[field    |-> <<"t">>,
                             operator |-> <<"c", "o", "n", "t", "a", "i", "n", "s">>,
                             value    |-> [list |-> <<Placeholder(DB), <<"c">>>>]]>>,
     groupPermissions |-> <<>>]

\* a placeholder no variable is declared or supplied for, in a list value
ConstraintUndeclared ==
    [ConstraintGood EXCEPT
        !.name = <<"u">>,
        !.criteriaAnd = <<[field    |-> <<"d", "b">>,
                           operator |-> equals,
                           value    |-> [list |-> <<<<"c">>,
                                                    Placeholder(<<"X">>)>>]]>>]

\* a permission whose type the request does not set
ConstraintNoType ==
    [ConstraintGood EXCEPT !.name = <<"t">>,
                           !.groupPermissions = <<[action |-> GET]>>]

ConstraintBadOperator ==
    [ConstraintGood EXCEPT
        !.name = <<"f">>,
        !.criteriaOr = <<[field    |-> <<"t">>,
                          operator |-> <<"f", "u", "z", "z", "y">>,
                          value    |-> [str |-> <<"c">>]]>>]

ConstraintBadObjectType ==
    [ConstraintGood EXCEPT !.name = <<"o">>, !.objectType = <<"c", "a", "r">>]

ConstraintNoCriteria ==
    [ConstraintGood EXCEPT !.name = <<"e">>, !.criteriaAnd = <<>>]

ConstraintBadAction ==
    [ConstraintGood EXCEPT
        !.name = <<"g">>,
        !.groupPermissions = <<[action |-> GET, type |-> allow],
                               [action |-> <<"R", "E", "A", "D">>,
                                type   |-> allow]>>]

ConstraintBadType ==
    [ConstraintGood EXCEPT
        !.name = <<"y">>,
        !.groupPermissions = <<[action |-> GET, type |-> <<"a", "s", "k">>]>>]

\* the object type written as a placeholder
ConstraintPlaceholderType ==
    [ConstraintGood EXCEPT !.name = <<"k">>,
                           !.objectType = Placeholder(<<"T">>)]

\* the operator of a criterion written as a placeholder
ConstraintPlaceholderOperator ==
    [ConstraintGood EXCEPT
        !.name = <<"n">>,
        !.criteriaAnd = <<[field    |-> <<"d", "b">>,
                           operator |-> Placeholder(<<"O", "P">>),
                           value    |-> [str |-> <<"c">>]]>>]

\* a placeholder whose name has a hyphen and that no variable is supplied
\* for, in a list value
ConstraintHyphenated ==
    [ConstraintGood EXCEPT
        !.name = <<"h">>,
        !.criteriaAnd = <<[field    |-> <<"d", "b">>,
                           operator |-> equals,
                           value    |-> [list |-> <<<<"c">>,
                                                    Placeholder(<<"a", "-", "b">>)>>]]>>]

\* the constraints that pass validate_template_import
AcceptedConstraints ==
    {ConstraintGood, ConstraintNoGrantee, ConstraintUndeclared, ConstraintNoType}

\* the constraints that violate one rule of validate_template_import
RejectedConstraints ==
    {ConstraintBadOperator, ConstraintBadObjectType, ConstraintNoCriteria,
     ConstraintBadAction, ConstraintBadType, ConstraintPlaceholderType,
     ConstraintPlaceholderOperator}

\* the lists of at most n elements of S
ListsUpTo(S, n) == UNION {[1..k -> S] : k \in 0..n}

\* variableValues: complete, without DB, without ROLE_NAME.  The complete
\* one has allowed words for T and OP, and a variable named as an allowed
\* word
VariableValuesPool ==
    {<<<<ROLE_NAME, <<"q", "a">>>>, <<DB, <<"p", "1">>>>,
       <<<<"T">>, asset>>, <<<<"O", "P">>, equals>>,
       <<asset, <<"c", "a", "r">>>>>>,
     <<<<ROLE_NAME, <<"q", "a">>>>>>,
     <<<<DB, <<"p", "1">>>>>>}

\* variables: none declared, DB required, DB required with a default, DB
\* not required with a default
VariablesPool ==
    {<<>>,
     <<[name |-> DB, required |-> TRUE]>>,
     <<[name |-> DB, required |-> TRUE, default |-> <<"p", "0">>]>>,
     <<[name |-> DB, required |-> FALSE, default |-> <<"p", "0">>]>>}

\* the parsed JSON bodies that are templates
Templates ==
    {[kind           |-> "template",
      variables      |-> vs,
      variableValues |-> vv,
      constraints    |-> cs] :
        vs \in VariablesPool, vv \in VariableValuesPool,
        cs \in ListsUpTo(AcceptedConstraints \cup RejectedConstraints,
                         MaxConstraints)}

\* an authorized POST of a body
Post(body) ==
    [tokens |-> <<<<"a", "d", "a">>>>, allowed |-> TRUE,
     method |-> "POST", body |-> body]

\* the requests of the sequential specification: every template, and the
\* requests the handler turns down before it parses a template
Requests ==
    {Post(t) : t \in Templates}
    \cup {[Post([kind |-> "missing"]) EXCEPT !.tokens = <<>>],
          [Post([kind |-> "missing"]) EXCEPT !.allowed = FALSE],
          [Post([kind |-> "missing"]) EXCEPT !.method = "GET"],
          Post([kind |-> "missing"]),
          Post([kind |-> "invalid_json"])}

\* the requests of the concurrent specification: well-formed templates
\* whose variables are all supplied
ConcRequests ==
    {Post([kind           |-> "template",
           variables      |-> <<>>,
           variableValues |-> <<<<ROLE_NAME, <<"q", "a">>>>,
                                <<DB, <<"p", "1">>>>>>,
           constraints    |-> cs]) :
        cs \in {<<ConstraintGood>>,
                 <<ConstraintGood, ConstraintNoGrantee>>,
                 <<ConstraintNoGrantee, ConstraintGood>>}}

(***************************************************************************)
(* State.                                                                  *)
(***************************************************************************)
VARIABLES
    request,                 \* per handler: the event of its invocations
    pc,                      \* per handler: "idle", "creating" or "done"
    role_name,               \* per handler: role_name of import_template_constraints
    substituted_constraints, \* per handler: the list the loop runs over
    created_constraint_ids,  \* per handler: the identifiers appended so far
    response,                \* per handler: what lambda_handler returned
    constraints_table,       \* the table: constraintId -> item
    uuid_count,              \* identifiers uuid4 has handed out
    invocations,             \* invocations of lambda_handler so far
    fault,                   \* per handler: what ended the invocation early
    puts,                    \* per handler: keys put by the invocation, in order
    put_log,                 \* per handler: the items it has put, all invocations
    put_count,               \* put_item calls that were carried out
    built_ids,               \* the identifiers build_constraint_data has given
    built_count,             \* constraints build_constraint_data has built
    role_check,              \* per handler: the role lookup of the invocation
    denorm_input,            \* constraint_data given to the denormalizer
    denorm_items,            \* what the denormalizer returned for it
    subst_input,             \* a template given to the substitution
    subst_pc,                \* "input", "substituted" or "scanned"
    subst_output,            \* what substitute_variables returned for it
    subst_unreplaced,        \* what find_unreplaced_variables found in that
    cli_input,               \* the parsed --json-input of the CLI command
    cli_pc,                  \* "start" or "exited"
    cli_result,              \* exit code and error of the CLI command
    api_calls,               \* the templates the CLI sent to the import API
    delete_runs,             \* runs of "role constraint delete" so far
    delete_run,              \* options and environment of the last run
    delete_result,           \* exit code, error and API calls of the last run
    delete_calls,            \* the identifiers sent to the delete API
    list_args,               \* the options of a list command
    list_pc,                 \* "start", "fetching" or "exited"
    all_items,               \* all_items of the auto-pagination loop
    next_token,              \* next_token of the loop: is there one
    total_fetched,           \* total_fetched of the loop
    page_count,              \* page_count of the loop
    list_result,             \* what the list command gave
    apply_args,              \* the command line of apply_template.py
    apply_pc,                \* where the tool is: "start" ... "exited"
    tool_var_values,         \* var_values of main
    vamscli_log,             \* the vamscli commands run, with their outcomes
    apply_exit,              \* exit code and error of the tool
    validate_values,         \* values given to validate_template_import
    validate_pc,             \* "input" or "validated"
    validate_result,         \* what validate_template_import did with them
    cognito_enabled,         \* the deployment has Cognito and a user pool
    cognito_users,           \* the user pool: Username -> attributes
    cognito_update,          \* user_id and update_data of the last update
    cognito_calls,           \* the admin_update_user_attributes calls made
    cognito_result,          \* what the last update returned or raised
    cognito_updates          \* calls of update_cognito_user so far

vars ==
    <<request, pc, role_name, substituted_constraints, created_constraint_ids,
      response, constraints_table, uuid_count, invocations, fault, puts,
      put_log, put_count, built_ids, built_count, role_check, denorm_input,
      denorm_items, subst_input, subst_pc, subst_output, subst_unreplaced,
      cli_input, cli_pc, cli_result, api_calls, delete_runs, delete_run,
      delete_result, delete_calls, list_args, list_pc, all_items, next_token,
      total_fetched, page_count, list_result, apply_args, apply_pc,
      tool_var_values, vamscli_log, apply_exit, validate_values, validate_pc,
      validate_result, cognito_enabled, cognito_users, cognito_update,
      cognito_calls, cognito_result, cognito_updates>>

denorm_vars == <<denorm_input, denorm_items>>

subst_vars == <<subst_input, subst_pc, subst_output, subst_unreplaced>>

cli_vars == <<cli_input, cli_pc, cli_result, api_calls>>

delete_vars == <<delete_runs, delete_run, delete_result, delete_calls>>

list_vars ==
    <<list_args, list_pc, all_items, next_token, total_fetched, page_count,
      list_result>>

apply_vars ==
    <<apply_args, apply_pc, tool_var_values, vamscli_log, apply_exit>>

validate_vars == <<validate_values, validate_pc, validate_result>>

cognito_vars ==
    <<cognito_enabled, cognito_users, cognito_update, cognito_calls,
      cognito_result, cognito_updates>>

tool_vars ==
    <<delete_vars, list_vars, apply_vars, validate_vars, cognito_vars>>

handler_vars ==
    <<request, pc, role_name, substituted_constraints, created_constraint_ids,
      response, constraints_table, uuid_count, invocations, fault, puts,
      put_log, put_count, built_ids, built_count, role_check>>

\* the handler of the sequential specification, and the two of the
\* concurrent one
Handlers == {"h1"}

ConcHandlers == {"h1", "h2"}

NoResponse == [category |-> "none"]

\* the empty table
EmptyTable == [k \in {} |-> <<>>]

(***************************************************************************)
(* lambda_handler and import_template_constraints.                         *)
(***************************************************************************)
\* the except clauses of lambda_handler: the response for an exception
error_response(exception) ==
    IF exception.type = "ValidationError"
    THEN [category |-> "validation_error", message |-> exception.error]
    ELSE IF exception.type = "VAMSGeneralErrorResponse"
         THEN [category |-> "general_error", message |-> exception.message]
         ELSE [category |-> "internal_error"]

\* the message of the error import_template_constraints raises for the
\* unreplaced variables: their names, sorted
unreplaced_message(unreplaced) == [unreplaced |-> sorted(unreplaced)]

\* the dicts import_template_constraints builds from the parsed constraints
constraints_dicts(constraints) ==
    [i \in 1..Len(constraints) |->
        [name             |-> constraints[i].name,
         description      |-> constraints[i].description,
         objectType       |-> constraints[i].objectType,
         criteriaAnd      |-> constraints[i].criteriaAnd,
         criteriaOr       |-> constraints[i].criteriaOr,
         groupPermissions |-> constraints[i].groupPermissions]]

\* the roles table a lookup can meet: not configured (roles_table is None),
\* get_item raising, holding the role, holding no role
RolesTables ==
    {[configured |-> FALSE, raises |-> FALSE, roles |-> {}],
     [configured |-> TRUE, raises |-> TRUE, roles |-> {}],
     [configured |-> TRUE, raises |-> FALSE, roles |-> {<<"q", "a">>}],
     [configured |-> TRUE, raises |-> FALSE, roles |-> {}]}

\* validate_constraint_role_exists that reports a role it could not look up
\* as missing
validate_constraint_role_exists_strict(group_id, roles_table) ==
    IF ~roles_table.configured
    THEN [role_exists |-> TRUE, warnings |-> <<"not configured">>]
    ELSE IF roles_table.raises
         THEN [role_exists |-> FALSE, warnings |-> <<"could not validate">>]
         ELSE [role_exists |-> group_id \in roles_table.roles,
               warnings    |-> <<>>]

\* validate_constraint_role_exists: what it returns and the warnings it
\* logs; it raises nothing, the exception of get_item is caught
validate_constraint_role_exists(group_id, roles_table) ==
    IF ~roles_table.configured
    THEN [role_exists |-> TRUE, warnings |-> <<"not configured">>]
    ELSE IF roles_table.raises
         THEN [role_exists |-> TRUE, warnings |-> <<"could not validate">>]
         ELSE [role_exists |-> group_id \in roles_table.roles,
               warnings    |-> <<>>]

\* the role check of an invocation that did not get to it
NoRoleCheck == [called |-> FALSE]

\* "role_exists = validate_constraint_role_exists(role_name)" and the warning
\* import_template_constraints logs when the role does not exist
role_check_of(role, roles_table) ==
    LET looked_up == validate_constraint_role_exists(role, roles_table)
    IN  [called      |-> TRUE,
         roles_table |-> roles_table,
         role_exists |-> looked_up.role_exists,
         warnings    |-> IF looked_up.role_exists THEN looked_up.warnings
                         ELSE Append(looked_up.warnings, "does not exist")]

\* import_template_constraints down to the loop, for the validated body:
\* [raised, fault, role_name, substituted].  The role lookup that follows
\* the check of the unreplaced variables only logs: check_role
prepare_import(template_data, variable_values) ==
    LET substituted ==
            substitute_variables(constraints_dicts(template_data.constraints),
                                 variable_values)
        unreplaced == find_unreplaced_variables(substituted)
    IN  [raised      |-> IF unreplaced # {}
                         THEN [type    |-> "VAMSGeneralErrorResponse",
                               message |-> unreplaced_message(unreplaced)]
                         ELSE [type |-> "none"],
         fault       |-> IF unreplaced # {} THEN "unreplaced" ELSE "none",
         role_name   |-> VarValue(variable_values, ROLE_NAME),
         substituted |-> substituted]

\* lambda_handler down to the loop of import_template_constraints:
\* [response, fault, role_name, substituted]; response is NoResponse when
\* the loop is to run
begin_request(event) ==
    LET rejected(resp, why) ==
            [response |-> resp, fault |-> why, role_name |-> <<>>,
             substituted |-> <<>>]
        validated == validate_template_import(event.body)
        prepared  == prepare_import(event.body, validated.values)
    IN  IF ~(Len(event.tokens) > 0 /\ event.allowed)
        THEN rejected([category |-> "authorization_error"], "authorization")
        ELSE IF event.method # "POST"
        THEN rejected([category |-> "validation_error",
                       message  |-> "method"], "method")
        ELSE IF event.body.kind = "missing"
        THEN rejected([category |-> "validation_error",
                       message  |-> "body"], "body")
        ELSE IF event.body.kind = "invalid_json"
        THEN rejected([category |-> "validation_error",
                       message  |-> "json"], "body")
        ELSE IF validated.error # NoError
        THEN rejected(error_response([type  |-> "ValidationError",
                                      error |-> validated.error]),
                      "validation")
        ELSE [response    |-> IF prepared.raised.type = "none" THEN NoResponse
                              ELSE error_response(prepared.raised),
              fault       |-> prepared.fault,
              role_name   |-> prepared.role_name,
              substituted |-> prepared.substituted]

\* the role lookup of the invocation that begun describes: the lookup is
\* reached when nothing was raised before it, the loop follows it whatever
\* it returned
check_role(begun, roles_table) ==
    IF begun.response = NoResponse
    THEN role_check_of(begun.role_name, roles_table)
    ELSE NoRoleCheck

\* claims_and_roles["tokens"][0] if claims_and_roles.get("tokens") else "system"
username(event) ==
    IF Len(event.tokens) > 0 THEN event.tokens[1]
    ELSE <<"s", "y", "s", "t", "e", "m">>

\* next_constraint that takes the constraints from the end of the list
next_constraint_reversed(substituted, created) ==
    substituted[Len(substituted) - Len(created)]

\* the constraint the loop of import_template_constraints handles next
next_constraint(substituted, created) == substituted[Len(created) + 1]

\* created_constraint_ids.append(constraint_id)
append_created(created, constraint_id) == Append(created, constraint_id)

RECURSIVE put_items(_, _, _)
\* batch.put_item for the items from the k-th on: each replaces the item
\* that has its key
put_items(table, items, k) ==
    IF k > Len(items) THEN table
    ELSE put_items((items[k].constraintId :> items[k]) @@ table, items, k + 1)

\* the table after the batch_writer block: the batch of a constraint is one
\* call, which stores all items or, when it raises, none
batch_write(table, items, ok) ==
    IF ok THEN put_items(table, items, 1) ELSE table

\* pc_after_write with the exception of the write caught inside the loop
pc_after_write_swallowed(ok) == "creating"

\* where the loop of import_template_constraints stands after the
\* batch_writer block: an exception leaves the loop and the function, no
\* try/except surrounds the block
pc_after_write(ok) == IF ok THEN "creating" ELSE "done"

\* the response of a completed import
success_response(created) ==
    [category           |-> "success",
     success            |-> TRUE,
     constraintsCreated |-> Len(created),
     constraintIds      |-> created]

(***************************************************************************)
(* Actions of a handler h.                                                 *)
(***************************************************************************)
\* the keys of a list of items, in order
ItemKeys(items) == [i \in 1..Len(items) |-> items[i].constraintId]

\* the elements of a list
Range(l) == {l[i] : i \in 1..Len(l)}

\* lambda_handler is invoked with the handler's event and runs down to the
\* loop of import_template_constraints, or to the response that ends it
Invoke(h) ==
    /\ pc[h] \in {"idle", "done"}
    /\ invocations < MaxInvocations
    /\ \E begun \in {begin_request(request[h])} :
           /\ response' = [response EXCEPT ![h] = begun.response]
           /\ fault' = [fault EXCEPT ![h] = begun.fault]
           /\ role_name' = [role_name EXCEPT ![h] = begun.role_name]
           /\ substituted_constraints' =
                  [substituted_constraints EXCEPT ![h] = begun.substituted]
           /\ pc' = [pc EXCEPT ![h] = IF begun.response = NoResponse
                                      THEN "creating" ELSE "done"]
           /\ \E roles_table \in RolesTables :
                  role_check' = [role_check EXCEPT
                                    ![h] = check_role(begun, roles_table)]
    /\ created_constraint_ids' = [created_constraint_ids EXCEPT ![h] = <<>>]
    /\ puts' = [puts EXCEPT ![h] = <<>>]
    /\ invocations' = invocations + 1
    /\ UNCHANGED <<request, constraints_table, uuid_count, put_log, put_count,
                   built_ids, built_count, denorm_vars, subst_vars, cli_vars,
                   tool_vars>>

\* one iteration of the loop "for constraint in substituted_constraints":
\* build the constraint, denormalize it, write its items as one batch
CreateConstraint(h) ==
    /\ pc[h] = "creating"
    /\ Len(created_constraint_ids[h]) < Len(substituted_constraints[h])
    /\ LET constraint == next_constraint(substituted_constraints[h],
                                         created_constraint_ids[h])
           built == build_constraint_data(constraint, role_name[h],
                                          username(request[h]), uuid_count)
       IN  /\ uuid_count' = uuid_count + built.uuids
           /\ IF built.raised # "none"
              THEN /\ response' = [response EXCEPT
                           ![h] = error_response([type |-> built.raised])]
                   /\ fault' = [fault EXCEPT ![h] = "build"]
                   /\ pc' = [pc EXCEPT ![h] = "done"]
                   /\ UNCHANGED <<constraints_table, created_constraint_ids,
                                  puts, put_log, put_count, built_ids,
                                  built_count>>
              ELSE \E ok \in BOOLEAN :
                   LET items == _transform_to_denormalized_format(built.data)
                   IN  /\ built_ids' = built_ids \cup {built.data.identifier}
                       /\ built_count' = built_count + 1
                       /\ constraints_table' =
                              batch_write(constraints_table, items, ok)
                       /\ pc' = [pc EXCEPT ![h] = pc_after_write(ok)]
                       /\ IF ok
                          THEN /\ created_constraint_ids' =
                                      [created_constraint_ids EXCEPT ![h] =
                                          append_created(@, built.data.identifier)]
                               /\ puts' = [puts EXCEPT ![h] = @ \o ItemKeys(items)]
                               /\ put_log' = [put_log EXCEPT
                                                 ![h] = @ \cup Range(items)]
                               /\ put_count' = put_count + Len(items)
                               /\ UNCHANGED <<response, fault>>
                          ELSE /\ fault' = [fault EXCEPT ![h] = "storage"]
                               /\ response' = [response EXCEPT ![h] =
                                      IF pc_after_write(ok) = "done"
                                      THEN error_response([type |-> "ClientError"])
                                      ELSE @]
                               /\ UNCHANGED <<created_constraint_ids, puts,
                                              put_log, put_count>>
    /\ UNCHANGED <<request, role_name, substituted_constraints, invocations,
                   role_check, denorm_vars, subst_vars, cli_vars,
                   tool_vars>>

\* the loop is over: import_template_constraints returns its result and
\* lambda_handler the success response
Return(h) ==
    /\ pc[h] = "creating"
    /\ Len(created_constraint_ids[h]) = Len(substituted_constraints[h])
    /\ response' = [response EXCEPT
                       ![h] = success_response(created_constraint_ids[h])]
    /\ pc' = [pc EXCEPT ![h] = "done"]
    /\ UNCHANGED <<request, role_name, substituted_constraints,
                   created_constraint_ids, constraints_table, uuid_count,
                   invocations, fault, puts, put_log, put_count, built_ids,
                   built_count, role_check, denorm_vars, subst_vars, cli_vars,
                   tool_vars>>

(***************************************************************************)
(* The denormalizer on constraint data in API format.                      *)
(***************************************************************************)
\* group permissions in API format (GroupPermissionModel)
GroupPermissionPool ==
    {[id |-> uuid4(2), groupId |-> <<"A">>, permission |-> GET,
      permissionType |-> allow],
     [id |-> uuid4(3), groupId |-> <<"A">>,
      permission |-> <<"P", "O", "S", "T">>,
      permissionType |-> <<"d", "e", "n", "y">>],
     [id |-> uuid4(4), groupId |-> <<"B">>, permission |-> GET,
      permissionType |-> allow]}

\* user permissions in API format (UserPermissionModel)
UserPermissionPool ==
    {[userId |-> <<"u", "0", "1">>, permission |-> GET,
      permissionType |-> allow],
     [userId |-> <<"u", "0", "2">>, permission |-> GET,
      permissionType |-> allow]}

DenormInputs ==
    {[identifier       |-> uuid4(1),
      name             |-> <<"c">>,
      description      |-> <<"d">>,
      objectType       |-> asset,
      criteriaAnd      |-> ConstraintGood.criteriaAnd,
      criteriaOr       |-> <<>>,
      groupPermissions |-> gp,
      userPermissions  |-> up,
      createdBy        |-> <<"a", "d", "a">>,
      modifiedBy       |-> <<"a", "d", "a">>] :
        gp \in ListsUpTo(GroupPermissionPool, MaxGroupPerms),
        up \in ListsUpTo(UserPermissionPool, MaxUserPerms)}

\* _transform_to_denormalized_format is applied to the input
Transform ==
    /\ denorm_items = <<>>
    /\ denorm_items' = _transform_to_denormalized_format(denorm_input)
    /\ UNCHANGED <<denorm_input, handler_vars, subst_vars, cli_vars,
                   tool_vars>>

(***************************************************************************)
(* substitute_variables and find_unreplaced_variables on a template.       *)
(***************************************************************************)
\* texts of a template: one placeholder, two placeholders, a placeholder
\* of a variable nobody declares, a placeholder inside braces, no
\* placeholder
SubstTexts ==
    {Placeholder(<<"A">>),
     Placeholder(<<"A">>) \o <<"+">> \o Placeholder(<<"B">>),
     Placeholder(<<"X">>),
     <<"{", "{">> \o Placeholder(<<"A">>) \o <<"}", "}">>,
     <<"c">>}

\* variableValues in the order of the dict: plain values; the value of A
\* holding the placeholder of B, with A before B and with B before A; A
\* alone; the value of A the name of B
SubstValues ==
    {<<<<<<"A">>, <<"x">>>>, <<<<"B">>, <<"y">>>>>>,
     <<<<<<"A">>, Placeholder(<<"B">>)>>, <<<<"B">>, <<"y">>>>>>,
     <<<<<<"B">>, <<"y">>>>, <<<<"A">>, Placeholder(<<"B">>)>>>>,
     <<<<<<"A">>, <<"x">>>>>>,
     <<<<<<"A">>, <<"B">>>>, <<<<"B">>, <<"y">>>>>>}

\* the variables a template declares
SubstVariables ==
    {<<>>,
     <<[name |-> <<"A">>, required |-> TRUE]>>,
     <<[name |-> <<"A">>, required |-> TRUE],
       [name |-> <<"B">>, required |-> TRUE]>>}

\* a constraint dict with the text t as its name, as the str value of its
\* criterion, or inside the list value of its criterion
SubstConstraints(t) ==
    LET plain == [ConstraintGood EXCEPT
                     !.name = <<"c">>,
                     !.criteriaAnd[1].value = [str |-> <<"c">>]]
    IN  {[plain EXCEPT !.name = t],
         [plain EXCEPT !.criteriaAnd[1].value = [str |-> t]],
         [plain EXCEPT !.criteriaAnd[1].value = [list |-> <<<<"c">>, t>>]]}

SubstInputs ==
    {[variables      |-> vs,
      variableValues |-> vv,
      constraints    |-> <<c>>] :
        vs \in SubstVariables, vv \in SubstValues,
        c \in UNION {SubstConstraints(t) : t \in SubstTexts}}

\* substitute_variables is applied to the constraints of the template
Substitute ==
    /\ subst_pc = "input"
    /\ subst_output' = substitute_variables(subst_input.constraints,
                                            subst_input.variableValues)
    /\ subst_pc' = "substituted"
    /\ UNCHANGED <<subst_input, subst_unreplaced, handler_vars, denorm_vars, cli_vars,
                   tool_vars>>

\* find_unreplaced_variables is applied to the substituted constraints
Scan ==
    /\ subst_pc = "substituted"
    /\ subst_unreplaced' = find_unreplaced_variables(subst_output)
    /\ subst_pc' = "scanned"
    /\ UNCHANGED <<subst_input, subst_output, handler_vars, denorm_vars, cli_vars,
                   tool_vars>>

(***************************************************************************)
(* The CLI command "role constraint template import".  template_data is    *)
(* the parsed JSON: a record that has the keys the JSON object has.        *)
(***************************************************************************)
\* what api_client.import_constraints_template can do: return the result
\* of the import or raise
ApiOutcomes ==
    {"result", "InvalidConstraintDataError", "TemplateImportError",
     "Exception"}

\* the command exits through click.ClickException(message): exit code 1
cli_error(message) ==
    [exit_code |-> 1, error |-> message, api_called |-> FALSE]

\* the required-fields check of template_import that does not look for
\* ROLE_NAME
missing_role_name_unchecked(template_data) == FALSE

\* "if 'ROLE_NAME' not in template_data.get('variableValues', {})"
missing_role_name(template_data) ==
    ~HasVar(template_data.variableValues, ROLE_NAME)

\* the required-fields check of template_import that accepts an empty
\* constraints list
missing_constraints_key_only(template_data) ==
    "constraints" \notin DOMAIN template_data

\* "if 'constraints' not in template_data or not template_data['constraints']"
missing_constraints(template_data) ==
    \/ "constraints" \notin DOMAIN template_data
    \/ template_data.constraints = <<>>

\* template_import(ctx, json_input, json_output) for the parsed input and
\* the outcome of the API call, when it comes to the call
template_import(template_data, api_outcome) ==
    IF DOMAIN template_data = {}
    THEN cli_error("Template data is empty")
    ELSE IF "variableValues" \notin DOMAIN template_data
    THEN cli_error("Missing 'variableValues' field in template data")
    ELSE IF missing_role_name(template_data)
    THEN cli_error("Missing 'ROLE_NAME' in variableValues")
    ELSE IF missing_constraints(template_data)
    THEN cli_error("Missing or empty 'constraints' field in template data")
    ELSE [exit_code  |-> IF api_outcome = "result" THEN 0 ELSE 1,
          error      |-> IF api_outcome = "result" THEN "" ELSE api_outcome,
          api_called |-> TRUE]

\* the JSON objects that lack a top-level key
PartialTemplates ==
    {<<>>,
     [constraints |-> <<ConstraintGood>>],
     [variableValues |-> <<<<ROLE_NAME, <<"q", "a">>>>>>],
     [variableValues |-> <<<<DB, <<"p", "1">>>>>>]}

\* the JSON objects that have variableValues and constraints: with and
\* without ROLE_NAME, with well-formed and other constraints
FullTemplates ==
    {[variables      |-> vs,
      variableValues |-> vv,
      constraints    |-> cs] :
        vs \in {<<>>, <<[name |-> DB, required |-> TRUE]>>},
        vv \in {<<<<ROLE_NAME, <<"q", "a">>>>, <<DB, <<"p", "1">>>>>>,
                 <<<<DB, <<"p", "1">>>>>>,
                 <<>>},
        cs \in {<<ConstraintGood>>, <<ConstraintBadOperator>>, <<>>}}

CliInputs == PartialTemplates \cup FullTemplates

\* the requests whose templates have placeholders of several kinds: with
\* a value, with a name of word characters and no value, with a hyphen in
\* the name and no value
PlaceholderRequests ==
    {Post([kind           |-> "template",
           variables      |-> <<>>,
           variableValues |-> vv,
           constraints    |-> cs]) :
        vv \in VariableValuesPool,
        cs \in ListsUpTo({ConstraintGood, ConstraintUndeclared,
                          ConstraintHyphenated}, MaxConstraints)}

\* the requests a client sends to the import API without the CLI
DirectRequests ==
    {Post([kind |-> "template"] @@ t) : t \in FullTemplates}

\* the command runs: it exits on a missing field, or calls the API and
\* exits with what the call gave
TemplateImport ==
    /\ cli_pc = "start"
    /\ \E api_outcome \in ApiOutcomes :
           LET result == template_import(cli_input, api_outcome)
           IN  /\ cli_result' = result
               /\ api_calls' = IF result.api_called
                               THEN Append(api_calls, cli_input)
                               ELSE api_calls
    /\ cli_pc' = "exited"
    /\ UNCHANGED <<cli_input, handler_vars, denorm_vars, subst_vars, tool_vars>>

(***************************************************************************)
(* validate_template_import applied to templates that violate several of  *)
(* its rules.                                                              *)
(***************************************************************************)
\* constraints a template of this pool has at most
MaxValidated == 2

fuzzy == <<"f", "u", "z", "z", "y">>

near == <<"n", "e", "a", "r">>

READ == <<"R", "E", "A", "D">>

ask == <<"a", "s", "k">>

car == <<"c", "a", "r">>

Criterion(operator) ==
    [field |-> <<"d", "b">>, operator |-> operator, value |-> [str |-> <<"c">>]]

\* constraints that violate no rule, one rule, or several rules at once
ValidatedConstraints ==
    {ConstraintGood,
     ConstraintNoGrantee,
     ConstraintNoType,
     [ConstraintGood EXCEPT
         !.objectType = car, !.criteriaAnd = <<>>,
         !.groupPermissions = <<[action |-> READ, type |-> ask]>>],
     [ConstraintGood EXCEPT
         !.criteriaAnd = <<>>,
         !.groupPermissions = <<[action |-> READ, type |-> allow]>>],
     [ConstraintGood EXCEPT
         !.criteriaAnd = <<Criterion(equals), Criterion(fuzzy)>>,
         !.criteriaOr = <<Criterion(near)>>,
         !.groupPermissions = <<[action |-> READ, type |-> allow]>>],
     [ConstraintGood EXCEPT
         !.criteriaOr = <<Criterion(near), Criterion(fuzzy)>>,
         !.groupPermissions = <<[action |-> GET, type |-> ask]>>],
     [ConstraintGood EXCEPT
         !.groupPermissions = <<[action |-> READ, type |-> ask]>>],
     [ConstraintGood EXCEPT
         !.groupPermissions = <<[action |-> GET, type |-> ask],
                                [action |-> READ, type |-> allow]>>],
     [ConstraintGood EXCEPT
         !.groupPermissions = <<[action |-> GET],
                                [action |-> READ, type |-> ask]>>]}

\* variableValues: without ROLE_NAME, with a ROLE_NAME that is not an
\* object name, with ROLE_NAME, with ROLE_NAME and DB
ValidatedVariableValues ==
    {<<<<DB, <<"p", "1">>>>>>,
     <<<<ROLE_NAME, <<"q", "#">>>>>>,
     <<<<ROLE_NAME, <<"q", "a">>>>>>,
     <<<<ROLE_NAME, <<"q", "a">>>>, <<DB, <<"p", "1">>>>>>}

\* variables: the declarations of VariablesPool, and two variables of
\* which none, the second, or both lack a value
ValidatedVariables ==
    VariablesPool
    \cup {<<[name |-> DB, required |-> TRUE, default |-> <<"p", "0">>],
            [name |-> <<"T">>, required |-> TRUE]>>,
          <<[name |-> <<"T">>, required |-> TRUE],
            [name |-> DB, required |-> TRUE]>>}

\* the parsed requests validate_template_import is applied to
ValidatedTemplates ==
    [variables      : ValidatedVariables,
     variableValues : ValidatedVariableValues,
     constraints    : ListsUpTo(ValidatedConstraints, MaxValidated)]

\* the request of a specification that does not run the validator alone
NoValidatedTemplate ==
    [variables |-> <<>>, variableValues |-> <<>>, constraints |-> <<>>]

\* the root validator runs on the parsed request
Validate ==
    /\ validate_pc = "input"
    /\ validate_result' = validate_template_import(validate_values)
    /\ validate_pc' = "validated"
    /\ UNCHANGED validate_values
    /\ UNCHANGED <<handler_vars, denorm_vars, subst_vars, cli_vars,
                   delete_vars, list_vars, apply_vars, cognito_vars>>

(***************************************************************************)
(* The CLI command "role constraint delete".                               *)
(***************************************************************************)
\* runs of the command in one session
MaxDeleteRuns == 2

\* the values of --constraint-id
ConstraintIds == {"c1", "c2"}

\* what the user does at click.confirm: accept, decline, or end the input
\* (click.Abort)
PromptAnswers == {"y", "n", "abort"}

\* what api_client.delete_constraint can do: return the result or raise
DeleteApiOutcomes ==
    {"result", "ConstraintNotFoundError", "ConstraintDeletionError",
     "Exception"}

\* the prompt of delete_constraint that goes on whatever the answer is
prompt_declined_never(json_output, answer) == FALSE

\* "if not json_output: ... if not click.confirm(...)": the prompt is shown
\* and the user declines
prompt_declined(json_output, answer) ==
    ~json_output /\ answer = "n"

\* delete_constraint(ctx, constraint_id, confirm, json_output) with the
\* answer given at the prompt and the outcome of the API call, when it
\* comes to them; calls are the identifiers passed to the delete API
delete_constraint(constraint_id, confirm, json_output, answer, api_outcome) ==
    IF ~confirm
    THEN [exit_code |-> 1,
          error     |-> IF json_output
                        THEN "Confirmation required"
                        ELSE "Confirmation required for constraint deletion",
          prompted  |-> FALSE,
          calls     |-> <<>>]
    ELSE IF ~json_output /\ answer = "abort"
    THEN [exit_code |-> 1, error |-> "Aborted!", prompted |-> TRUE,
          calls |-> <<>>]
    ELSE IF prompt_declined(json_output, answer)
    THEN [exit_code |-> 0, error |-> "", prompted |-> TRUE, calls |-> <<>>]
    ELSE [exit_code |-> IF api_outcome = "result" THEN 0 ELSE 1,
          error     |-> IF api_outcome = "result" THEN "" ELSE api_outcome,
          prompted  |-> ~json_output,
          calls     |-> <<constraint_id>>]

\* the options and the environment of a run
DeleteRuns ==
    [constraint_id : ConstraintIds, confirm : BOOLEAN, json_output : BOOLEAN,
     answer : PromptAnswers, api_outcome : DeleteApiOutcomes]

\* the run before the first run
NoDeleteRun ==
    [constraint_id |-> "c1", confirm |-> FALSE, json_output |-> FALSE,
     answer |-> "n", api_outcome |-> "result"]

\* the command runs once
DeleteConstraint ==
    /\ delete_runs < MaxDeleteRuns
    /\ \E run \in DeleteRuns :
           LET result == delete_constraint(run.constraint_id, run.confirm,
                                           run.json_output, run.answer,
                                           run.api_outcome)
           IN  /\ delete_run' = run
               /\ delete_result' = result
               /\ delete_calls' = delete_calls \o result.calls
    /\ delete_runs' = delete_runs + 1
    /\ UNCHANGED <<handler_vars, denorm_vars, subst_vars, cli_vars, list_vars,
                   apply_vars, validate_vars,
                   cognito_vars>>

(***************************************************************************)
(* The CLI commands "role constraint list" and "role user list", which     *)
(* share their pagination code.  An absent --max-items or --page-size is   *)
(* 0: the code tests them for truth.                                       *)
(***************************************************************************)
\* pages a listing has at most, and items the API puts on a page at most
MaxPages == 3

MaxPageItems == 3

\* "max_total_items = max_items or 10000"
DefaultMaxItems == 10000

max_total_items(max_items) ==
    IF max_items # 0 THEN max_items ELSE DefaultMaxItems

\* the options of a run
ListArgs ==
    [auto_paginate : BOOLEAN, starting_token : BOOLEAN,
     max_items : {0, 1, 2, 4}, page_size : {0, 2}]

\* the options of a specification that runs no list command
NoListArgs ==
    [auto_paginate |-> FALSE, starting_token |-> FALSE, max_items |-> 0,
     page_size |-> 0]

\* a page the API returns: its items, named by page and place, and
\* whether it carries a NextToken; the listing ends at MaxPages pages
Pages(page) ==
    [Items : {[i \in 1..n |-> <<page, i>>] : n \in 0..MaxPageItems},
     NextToken : IF page < MaxPages THEN BOOLEAN ELSE {FALSE}]

NoListResult == [exit_code |-> 0, error |-> "", Items |-> <<>>]

\* "if not next_token or total_fetched >= max_total_items: break"
loop_ends(token, fetched, limit) ==
    ~token \/ fetched >= limit

\* the final result of the auto-pagination branch
auto_paginated_result(items, pages, token, fetched, limit) ==
    LET result == [exit_code     |-> 0,
                   error         |-> "",
                   Items         |-> items,
                   totalItems    |-> Len(items),
                   autoPaginated |-> TRUE,
                   pageCount     |-> pages]
    IN  IF fetched >= limit /\ token
        THEN result @@ [note |-> <<"Reached maximum of", limit, "items">>]
        ELSE result

\* the command starts: it turns down --auto-paginate with
\* --starting-token, enters the loop, or makes its one call
ListStart ==
    /\ list_pc = "start"
    /\ IF list_args.auto_paginate /\ list_args.starting_token
       THEN /\ list_result' =
                   [exit_code |-> 1,
                    error |-> "Cannot use --auto-paginate with --starting-token",
                    Items |-> <<>>]
            /\ list_pc' = "exited"
            /\ UNCHANGED page_count
       ELSE IF list_args.auto_paginate
       THEN /\ list_pc' = "fetching"
            /\ UNCHANGED <<list_result, page_count>>
       ELSE \E page \in Pages(1) :
                /\ list_result' = [exit_code |-> 0, error |-> ""] @@ page
                /\ list_pc' = "exited"
                /\ page_count' = 1
    /\ UNCHANGED <<list_args, all_items, next_token, total_fetched>>
    /\ UNCHANGED <<handler_vars, denorm_vars, subst_vars, cli_vars,
                   delete_vars, apply_vars, validate_vars,
                   cognito_vars>>

\* one turn of "while True": a page is fetched and added, and the loop
\* goes on or ends with the final result
FetchPage ==
    /\ list_pc = "fetching"
    /\ \E page \in Pages(page_count + 1) :
           LET items   == all_items \o page.Items
               fetched == total_fetched + Len(page.Items)
               limit   == max_total_items(list_args.max_items)
           IN  /\ all_items' = items
               /\ total_fetched' = fetched
               /\ next_token' = page.NextToken
               /\ IF loop_ends(page.NextToken, fetched, limit)
                  THEN /\ list_pc' = "exited"
                       /\ list_result' =
                              auto_paginated_result(items, page_count + 1,
                                                    page.NextToken, fetched,
                                                    limit)
                  ELSE UNCHANGED <<list_pc, list_result>>
    /\ page_count' = page_count + 1
    /\ UNCHANGED list_args
    /\ UNCHANGED <<handler_vars, denorm_vars, subst_vars, cli_vars,
                   delete_vars, apply_vars, validate_vars,
                   cognito_vars>>

(***************************************************************************)
(* The tool apply_template.py.  A dict is the sequence of its              *)
(* <<key, value>> pairs in insertion order; a JSON source is a record that *)
(* says what reading it gives.                                             *)
(***************************************************************************)
\* d.setdefault(key, value): a key the dict has keeps its value
dict_set_keep(d, key, value) ==
    IF HasVar(d, key) THEN d ELSE Append(d, <<key, value>>)

\* d[key] = value
dict_set(d, key, value) ==
    IF HasVar(d, key)
    THEN [k \in 1..Len(d) |-> IF d[k][1] = key THEN <<key, value>> ELSE d[k]]
    ELSE Append(d, <<key, value>>)

RECURSIVE dict_update(_, _)
\* d.update(other)
dict_update(d, other) ==
    IF other = <<>>
    THEN d
    ELSE dict_update(dict_set(d, Head(other)[1], Head(other)[2]),
                     Tail(other))

\* "=" in var_str
has_equals(var_str) == \E i \in 1..Len(var_str) : var_str[i] = "="

\* var_str.split("=", 1), for a var_str with "=" in it
split_equals(var_str) ==
    LET i == CHOOSE i \in 1..Len(var_str) :
                 /\ var_str[i] = "="
                 /\ \A j \in 1..(i - 1) : var_str[j] # "="
    IN  <<SubSeq(var_str, 1, i - 1), SubSeq(var_str, i + 1, Len(var_str))>>

\* the tool exits through sys.exit(1) after printing message
tool_error(message) == [exit_code |-> 1, error |-> message]

RECURSIVE apply_var_overrides(_, _)
\* "for var_str in args.var": the dict after the loop, or the exit of the
\* first var_str without "="
apply_var_overrides(values, var) ==
    IF var = <<>>
    THEN [exit_code |-> 0, error |-> "", var_values |-> values]
    ELSE IF ~has_equals(Head(var))
    THEN tool_error("--var must be in KEY=VALUE format")
    ELSE LET kv == split_equals(Head(var))
         IN  apply_var_overrides(dict_set(values, kv[1], kv[2]), Tail(var))

\* step 4 of resolve_variables: --role-name is authoritative
set_role_name(values, role) ==
    IF HasVar(values, ROLE_NAME) /\ VarValue(values, ROLE_NAME) # role
    THEN tool_error("ROLE_NAME in variables conflicts with --role-name")
    ELSE [exit_code |-> 0, error |-> "",
          var_values |-> dict_set(values, ROLE_NAME, role)]

\* resolve_variables(args): the dict it returns, or the exit it takes
resolve_variables(args) ==
    LET file == args.variables_file
        json == args.variables
    IN  IF file.kind = "not_found"
        THEN tool_error("Variables file not found")
        ELSE IF file.kind = "invalid_json"
        THEN tool_error("Invalid JSON in variables file")
        ELSE IF file.kind = "not_object"
        THEN tool_error("Variables file must contain a JSON object")
        ELSE IF json.kind = "invalid_json"
        THEN tool_error("Invalid JSON in --variables")
        ELSE IF json.kind = "not_object"
        THEN tool_error("--variables must be a JSON object")
        ELSE LET from_file == IF file.kind = "object"
                              THEN dict_update(<<>>, file.value) ELSE <<>>
                 from_json == IF json.kind = "object"
                              THEN dict_update(from_file, json.value)
                              ELSE from_file
                 from_var  == apply_var_overrides(from_json, args.var)
             IN  IF from_var.exit_code # 0
                 THEN from_var
                 ELSE set_role_name(from_var.var_values, args.role_name)

\* the value of --role-name, and another role name
RoleNameArg == <<"q", "a">>

OtherRoleName == <<"z", "z">>

\* what --variables-file and --variables can give
JsonObjects ==
    {[kind |-> "object", value |-> d] :
        d \in {<<>>,
                <<<<DB, <<"p", "1">>>>>>,
                <<<<ROLE_NAME, RoleNameArg>>, <<DB, <<"p", "2">>>>>>,
                <<<<ROLE_NAME, OtherRoleName>>>>}}

FileSources ==
    {[kind |-> "absent"], [kind |-> "not_found"]} \cup JsonObjects

JsonSources ==
    {[kind |-> "absent"], [kind |-> "invalid_json"], [kind |-> "not_object"]}
        \cup JsonObjects

\* the --var options of a command line, in order
VarLists ==
    {<<>>,
     <<<<"D", "B", "=", "p", "3">>>>,
     <<<<"D", "B", "=", "p", "3">>, <<"D", "B", "=", "p", "=">>>>,
     <<<<"D", "B">>>>,
     <<<<"R", "O", "L", "E", "_", "N", "A", "M", "E", "=", "q", "a">>>>,
     <<<<"R", "O", "L", "E", "_", "N", "A", "M", "E", "=", "z", "z">>>>}

\* the command lines of the tool
ApplyArgs ==
    [template       : {"ok", "not_found", "no_constraints"},
     role_name      : {RoleNameArg},
     variables_file : FileSources,
     variables      : JsonSources,
     var            : VarLists,
     dry_run        : BOOLEAN,
     delete         : BOOLEAN,
     assign_user    : {"", "u1"}]

\* the command line of a specification that does not run the tool
NoApplyArgs ==
    [template |-> "ok", role_name |-> RoleNameArg,
     variables_file |-> [kind |-> "absent"], variables |-> [kind |-> "absent"],
     var |-> <<>>, dry_run |-> TRUE, delete |-> FALSE, assign_user |-> ""]

\* what run_vamscli can do: return the result of the command, with its
\* return code and output, or raise (the command is missing or timed out)
VamscliOutcomes ==
    {[raised |-> FALSE, returncode |-> 0, output |-> ""],
     [raised |-> FALSE, returncode |-> 1, output |-> "already exists"],
     [raised |-> FALSE, returncode |-> 1, output |-> "failed"],
     [raised |-> TRUE, returncode |-> 1, output |-> ""]}

\* the tool ends: sys.exit(code), the return of main, or a traceback
ToolExit(code, message) ==
    /\ apply_exit' = [exit_code |-> code, error |-> message]
    /\ apply_pc' = "exited"

\* the tool runs a vamscli command, which ends with outcome
RunVamscli(command, outcome) ==
    vamscli_log' = Append(vamscli_log, command @@ [outcome |-> outcome])

\* create_role that takes every outcome for a success
create_role_always(outcome) == TRUE

\* what create_role returns for the outcome of "vamscli role create"
create_role(outcome) ==
    \/ outcome.returncode = 0
    \/ outcome.output = "already exists"

\* main up to the call of apply_template: the template file is looked for
\* and the variables are resolved
ResolveVariables ==
    /\ apply_pc = "start"
    /\ IF apply_args.template = "not_found"
       THEN /\ ToolExit(1, "Template file not found")
            /\ UNCHANGED tool_var_values
       ELSE \E resolved \in {resolve_variables(apply_args)} :
                IF resolved.exit_code # 0
                THEN /\ ToolExit(1, resolved.error)
                     /\ UNCHANGED tool_var_values
                ELSE /\ tool_var_values' = resolved.var_values
                     /\ apply_pc' = "resolved"
                     /\ UNCHANGED apply_exit
    /\ UNCHANGED <<apply_args, vamscli_log>>
    /\ UNCHANGED <<handler_vars, denorm_vars, subst_vars, cli_vars,
                   delete_vars, list_vars, validate_vars,
                   cognito_vars>>

\* apply_template loads the template
LoadTemplate ==
    /\ apply_pc = "resolved"
    /\ IF apply_args.template = "no_constraints"
       THEN ToolExit(1, "Template file missing required 'constraints' key")
       ELSE /\ apply_pc' = "loaded"
            /\ UNCHANGED apply_exit
    /\ UNCHANGED <<apply_args, tool_var_values, vamscli_log>>
    /\ UNCHANGED <<handler_vars, denorm_vars, subst_vars, cli_vars,
                   delete_vars, list_vars, validate_vars,
                   cognito_vars>>

\* delete mode: delete_role, and the tool returns
DeleteRole ==
    /\ apply_pc = "loaded"
    /\ apply_args.delete
    /\ IF apply_args.dry_run
       THEN /\ ToolExit(0, "")
            /\ UNCHANGED vamscli_log
       ELSE \E outcome \in VamscliOutcomes :
                /\ RunVamscli([command   |-> "role delete",
                               role_name |-> VarValue(tool_var_values,
                                                      ROLE_NAME)],
                              outcome)
                /\ IF outcome.raised
                   THEN ToolExit(1, "Traceback")
                   ELSE ToolExit(0, "")
    /\ UNCHANGED <<apply_args, tool_var_values>>
    /\ UNCHANGED <<handler_vars, denorm_vars, subst_vars, cli_vars,
                   delete_vars, list_vars, validate_vars,
                   cognito_vars>>

\* create mode: create_role, and the tool aborts when it failed
CreateRole ==
    /\ apply_pc = "loaded"
    /\ ~apply_args.delete
    /\ IF apply_args.dry_run
       THEN /\ apply_pc' = "role_created"
            /\ UNCHANGED <<vamscli_log, apply_exit>>
       ELSE \E outcome \in VamscliOutcomes :
                /\ RunVamscli([command   |-> "role create",
                               role_name |-> VarValue(tool_var_values,
                                                      ROLE_NAME)],
                              outcome)
                /\ IF outcome.raised
                   THEN ToolExit(1, "Traceback")
                   ELSE IF ~create_role(outcome)
                   THEN ToolExit(1, "FATAL: Could not create role. Aborting.")
                   ELSE /\ apply_pc' = "role_created"
                        /\ UNCHANGED apply_exit
    /\ UNCHANGED <<apply_args, tool_var_values>>
    /\ UNCHANGED <<handler_vars, denorm_vars, subst_vars, cli_vars,
                   delete_vars, list_vars, validate_vars,
                   cognito_vars>>

\* import_constraints: the template goes to the CLI with var_values as its
\* variableValues; a failed import is a warning
ImportConstraints ==
    /\ apply_pc = "role_created"
    /\ IF apply_args.dry_run
       THEN /\ apply_pc' = "imported"
            /\ UNCHANGED <<vamscli_log, apply_exit>>
       ELSE \E outcome \in VamscliOutcomes :
                /\ RunVamscli([command |-> "role constraint template import",
                               variableValues |-> tool_var_values],
                              outcome)
                /\ IF outcome.raised
                   THEN ToolExit(1, "Traceback")
                   ELSE /\ apply_pc' = "imported"
                        /\ UNCHANGED apply_exit
    /\ UNCHANGED <<apply_args, tool_var_values>>
    /\ UNCHANGED <<handler_vars, denorm_vars, subst_vars, cli_vars,
                   delete_vars, list_vars, validate_vars,
                   cognito_vars>>

\* assign_user_to_role when --assign-user is given, and the summary
AssignUser ==
    /\ apply_pc = "imported"
    /\ IF apply_args.assign_user = "" \/ apply_args.dry_run
       THEN /\ ToolExit(0, "")
            /\ UNCHANGED vamscli_log
       ELSE \E outcome \in VamscliOutcomes :
                /\ RunVamscli([command   |-> "role user create",
                               user_id   |-> apply_args.assign_user,
                               role_name |-> VarValue(tool_var_values,
                                                      ROLE_NAME)],
                              outcome)
                /\ IF outcome.raised
                   THEN ToolExit(1, "Traceback")
                   ELSE ToolExit(0, "")
    /\ UNCHANGED <<apply_args, tool_var_values>>
    /\ UNCHANGED <<handler_vars, denorm_vars, subst_vars, cli_vars,
                   delete_vars, list_vars, validate_vars,
                   cognito_vars>>

(***************************************************************************)
(* update_cognito_user.  update_data is a record with the keys the dict    *)
(* has; the empty text "" is the falsy value.                              *)
(***************************************************************************)
\* calls of update_cognito_user in one behaviour
MaxUpdates == 2

\* the users of the pool, and a user the pool does not have
UserIds == {"u1", "u2", "u3"}

\* update_data: every combination of the keys email, phone and phoneNumber
UpdateData ==
    {[k \in keys |-> values[k]] :
        keys \in SUBSET {"email", "phone", "phoneNumber"},
        values \in [email : {"e2", ""}, phone : {"p1", "p2", ""},
                    phoneNumber : {"p3"}]}

\* what admin_update_user_attributes can do for a user of the pool
CognitoOutcomes == {"ok", "InvalidParameterException", "ClientError"}

\* update_data.get(key): "" stands for None
data_get(update_data, key) ==
    IF key \in DOMAIN update_data THEN update_data[key] ELSE ""

\* "phone = update_data.get('phone') or update_data.get('phoneNumber')"
phone_of(update_data) ==
    IF data_get(update_data, "phone") # ""
    THEN data_get(update_data, "phone")
    ELSE data_get(update_data, "phoneNumber")

\* "if 'email' in update_data and update_data['email']"
email_attributes(update_data) ==
    IF "email" \in DOMAIN update_data /\ update_data.email # ""
    THEN <<[Name |-> "email", Value |-> update_data.email],
           [Name |-> "email_verified", Value |-> "true"]>>
    ELSE <<>>

\* the phone attributes of an update that leaves the phone alone when the
\* request has none
phone_attributes_kept(phone) ==
    IF phone # ""
    THEN <<[Name |-> "phone_number", Value |-> phone],
           [Name |-> "phone_number_verified", Value |-> "true"]>>
    ELSE <<>>

\* "if phone: ... else: ...": the phone is set, or cleared
phone_attributes(phone) ==
    IF phone # ""
    THEN <<[Name |-> "phone_number", Value |-> phone],
           [Name |-> "phone_number_verified", Value |-> "true"]>>
    ELSE <<[Name |-> "phone_number", Value |-> ""],
           [Name |-> "phone_number_verified", Value |-> "false"]>>

\* user_attributes of update_cognito_user
user_attributes(update_data) ==
    email_attributes(update_data) \o phone_attributes(phone_of(update_data))

RECURSIVE set_attributes(_, _)
\* the attributes of a user after admin_update_user_attributes
set_attributes(user, attributes) ==
    IF attributes = <<>>
    THEN user
    ELSE set_attributes([user EXCEPT ![Head(attributes).Name] =
                                         Head(attributes).Value],
                        Tail(attributes))

\* update_cognito_user(user_id, update_data, claims_and_roles) runs
UpdateCognitoUser ==
    /\ cognito_updates < MaxUpdates
    /\ cognito_updates' = cognito_updates + 1
    /\ \E user_id \in UserIds, update_data \in UpdateData :
           /\ cognito_update' = [user_id |-> user_id,
                                 update_data |-> update_data]
           /\ IF ~cognito_enabled
              THEN /\ cognito_result' =
                          [success |-> FALSE,
                           error |-> "Cognito user management is not available"]
                   /\ UNCHANGED <<cognito_users, cognito_calls>>
              ELSE \E attributes \in {user_attributes(update_data)} :
                   /\ cognito_calls' =
                          Append(cognito_calls,
                                 [Username       |-> user_id,
                                  UserAttributes |-> attributes])
                   /\ IF user_id \notin DOMAIN cognito_users
                      THEN /\ cognito_result' = [success |-> FALSE,
                                                  error |-> "User not found"]
                           /\ UNCHANGED cognito_users
                      ELSE \E outcome \in CognitoOutcomes :
                           IF outcome = "ok"
                           THEN /\ cognito_users' =
                                       [cognito_users EXCEPT ![user_id] =
                                           set_attributes(@, attributes)]
                                /\ cognito_result' =
                                       [success |-> TRUE, userId |-> user_id,
                                        operation |-> "update"]
                           ELSE /\ cognito_result' =
                                       [success |-> FALSE,
                                        error |->
                                            IF outcome =
                                                   "InvalidParameterException"
                                            THEN "Invalid update parameters"
                                            ELSE "Error updating user"]
                                /\ UNCHANGED cognito_users
    /\ UNCHANGED cognito_enabled
    /\ UNCHANGED <<handler_vars, denorm_vars, subst_vars, cli_vars,
                   delete_vars, list_vars, apply_vars, validate_vars>>

(***************************************************************************)
(* Specifications.                                                         *)
(***************************************************************************)
\* the handlers before their first invocation, events the event of each
InitHandlers(events) ==
    /\ request = events
    /\ pc = [h \in ConcHandlers |-> "idle"]
    /\ role_name = [h \in ConcHandlers |-> <<>>]
    /\ substituted_constraints = [h \in ConcHandlers |-> <<>>]
    /\ created_constraint_ids = [h \in ConcHandlers |-> <<>>]
    /\ response = [h \in ConcHandlers |-> NoResponse]
    /\ constraints_table = EmptyTable
    /\ uuid_count = 0
    /\ invocations = 0
    /\ fault = [h \in ConcHandlers |-> "none"]
    /\ puts = [h \in ConcHandlers |-> <<>>]
    /\ put_log = [h \in ConcHandlers |-> {}]
    /\ put_count = 0
    /\ built_ids = {}
    /\ built_count = 0
    /\ role_check = [h \in ConcHandlers |-> NoRoleCheck]

\* the denormalizer before it is applied to constraint_data
InitDenorm(constraint_data) ==
    /\ denorm_input = constraint_data
    /\ denorm_items = <<>>

\* the substitution before it is applied to the template
InitSubst(template) ==
    /\ subst_input = template
    /\ subst_pc = "input"
    /\ subst_output = <<>>
    /\ subst_unreplaced = {}

\* the CLI command before it runs on the parsed input
InitCli(template_data) ==
    /\ cli_input = template_data
    /\ cli_pc = "start"
    /\ cli_result = [exit_code |-> 0, error |-> "", api_called |-> FALSE]
    /\ api_calls = <<>>

\* the CLI command "role constraint delete" before its first run
InitDelete ==
    /\ delete_runs = 0
    /\ delete_run = NoDeleteRun
    /\ delete_result = [exit_code |-> 0, error |-> "", prompted |-> FALSE,
                        calls |-> <<>>]
    /\ delete_calls = <<>>

\* a list command before it runs with the options args
InitList(args) ==
    /\ list_args = args
    /\ list_pc = "start"
    /\ all_items = <<>>
    /\ next_token = FALSE
    /\ total_fetched = 0
    /\ page_count = 0
    /\ list_result = NoListResult

\* apply_template.py before it runs with the command line args
InitApply(args) ==
    /\ apply_args = args
    /\ apply_pc = "start"
    /\ tool_var_values = <<>>
    /\ vamscli_log = <<>>
    /\ apply_exit = [exit_code |-> 0, error |-> ""]

\* validate_template_import before it is applied to values
InitValidate(values) ==
    /\ validate_values = values
    /\ validate_pc = "input"
    /\ validate_result = [error |-> NoError, values |-> <<>>]

\* the user pool before the first update: a user with a verified phone
\* number, and a user without one
InitCognito(enabled) ==
    /\ cognito_enabled = enabled
    /\ cognito_users =
           [u \in {"u1", "u2"} |->
               [email                 |-> "e1",
                email_verified        |-> "true",
                phone_number          |-> IF u = "u1" THEN "p1" ELSE "",
                phone_number_verified |-> IF u = "u1" THEN "true" ELSE "false"]]
    /\ cognito_update = [user_id |-> "u1", update_data |-> <<>>]
    /\ cognito_calls = <<>>
    /\ cognito_result = [success |-> FALSE, error |-> ""]
    /\ cognito_updates = 0

\* the command-line tools, the validator and the user pool before they
\* run
InitTools ==
    /\ InitDelete
    /\ InitList(NoListArgs)
    /\ InitApply(NoApplyArgs)
    /\ InitValidate(NoValidatedTemplate)
    /\ InitCognito(TRUE)

\* one handler, invoked again and again with one event
Init ==
    /\ \E r \in Requests : InitHandlers([h \in ConcHandlers |-> r])
    /\ InitDenorm(CHOOSE d \in DenormInputs : TRUE)
    /\ InitSubst(CHOOSE t \in SubstInputs : TRUE)
    /\ InitCli(<<>>)
    /\ InitTools

Next == \E h \in Handlers : Invoke(h) \/ CreateConstraint(h) \/ Return(h)

Spec == Init /\ [][Next]_vars

\* two handlers that run concurrently, each with its own event
InitConc ==
    /\ \E events \in [ConcHandlers -> ConcRequests] : InitHandlers(events)
    /\ InitDenorm(CHOOSE d \in DenormInputs : TRUE)
    /\ InitSubst(CHOOSE t \in SubstInputs : TRUE)
    /\ InitCli(<<>>)
    /\ InitTools

NextConc ==
    \E h \in ConcHandlers : Invoke(h) \/ CreateConstraint(h) \/ Return(h)

SpecConc == InitConc /\ [][NextConc]_vars

\* the denormalizer applied to one constraint in API format
InitDenormalize ==
    /\ InitHandlers([h \in ConcHandlers |-> CHOOSE r \in ConcRequests : TRUE])
    /\ \E d \in DenormInputs : InitDenorm(d)
    /\ InitSubst(CHOOSE t \in SubstInputs : TRUE)
    /\ InitCli(<<>>)
    /\ InitTools

NextDenormalize == Transform

SpecDenormalize == InitDenormalize /\ [][NextDenormalize]_vars

\* the substitution and the scan applied to one template
InitSubstitute ==
    /\ InitHandlers([h \in ConcHandlers |-> CHOOSE r \in ConcRequests : TRUE])
    /\ InitDenorm(CHOOSE d \in DenormInputs : TRUE)
    /\ \E t \in SubstInputs : InitSubst(t)
    /\ InitCli(<<>>)
    /\ InitTools

NextSubstitute == Substitute \/ Scan

SpecSubstitute == InitSubstitute /\ [][NextSubstitute]_vars

\* a template goes through the CLI command, and a request goes to the
\* import API without the CLI
InitCliImport ==
    /\ \E r \in DirectRequests : InitHandlers([h \in ConcHandlers |-> r])
    /\ InitDenorm(CHOOSE d \in DenormInputs : TRUE)
    /\ InitSubst(CHOOSE t \in SubstInputs : TRUE)
    /\ \E t \in CliInputs : InitCli(t)
    /\ InitTools

NextCliImport ==
    \/ TemplateImport
    \/ \E h \in Handlers : Invoke(h) \/ CreateConstraint(h) \/ Return(h)

SpecCliImport == InitCliImport /\ [][NextCliImport]_vars

\* the CLI command "role constraint delete" is run a few times
InitCliDelete ==
    /\ InitHandlers([h \in ConcHandlers |-> CHOOSE r \in ConcRequests : TRUE])
    /\ InitDenorm(CHOOSE d \in DenormInputs : TRUE)
    /\ InitSubst(CHOOSE t \in SubstInputs : TRUE)
    /\ InitCli(<<>>)
    /\ InitDelete
    /\ InitList(NoListArgs)
    /\ InitApply(NoApplyArgs)
    /\ InitValidate(NoValidatedTemplate)
    /\ InitCognito(TRUE)

NextCliDelete == DeleteConstraint

SpecCliDelete == InitCliDelete /\ [][NextCliDelete]_vars

\* a list command runs with some options against some listing
InitCliList ==
    /\ InitHandlers([h \in ConcHandlers |-> CHOOSE r \in ConcRequests : TRUE])
    /\ InitDenorm(CHOOSE d \in DenormInputs : TRUE)
    /\ InitSubst(CHOOSE t \in SubstInputs : TRUE)
    /\ InitCli(<<>>)
    /\ InitDelete
    /\ \E args \in ListArgs : InitList(args)
    /\ InitApply(NoApplyArgs)
    /\ InitValidate(NoValidatedTemplate)
    /\ InitCognito(TRUE)

NextCliList == ListStart \/ FetchPage

SpecCliList == InitCliList /\ [][NextCliList]_vars

\* apply_template.py runs with some command line
InitApplyTemplate ==
    /\ InitHandlers([h \in ConcHandlers |-> CHOOSE r \in ConcRequests : TRUE])
    /\ InitDenorm(CHOOSE d \in DenormInputs : TRUE)
    /\ InitSubst(CHOOSE t \in SubstInputs : TRUE)
    /\ InitCli(<<>>)
    /\ InitDelete
    /\ InitList(NoListArgs)
    /\ \E args \in ApplyArgs : InitApply(args)
    /\ InitValidate(NoValidatedTemplate)
    /\ InitCognito(TRUE)

NextApplyTemplate ==
    \/ ResolveVariables
    \/ LoadTemplate
    \/ DeleteRole
    \/ CreateRole
    \/ ImportConstraints
    \/ AssignUser

SpecApplyTemplate == InitApplyTemplate /\ [][NextApplyTemplate]_vars

\* the root validator is applied to one parsed request
InitValidation ==
    /\ InitHandlers([h \in ConcHandlers |-> CHOOSE r \in ConcRequests : TRUE])
    /\ InitDenorm(CHOOSE d \in DenormInputs : TRUE)
    /\ InitSubst(CHOOSE t \in SubstInputs : TRUE)
    /\ InitCli(<<>>)
    /\ InitDelete
    /\ InitList(NoListArgs)
    /\ InitApply(NoApplyArgs)
    /\ \E values \in ValidatedTemplates : InitValidate(values)
    /\ InitCognito(TRUE)

NextValidation == Validate

SpecValidation == InitValidation /\ [][NextValidation]_vars

\* one handler, invoked with a template that has placeholders
InitPlaceholders ==
    /\ \E r \in PlaceholderRequests : InitHandlers([h \in ConcHandlers |-> r])
    /\ InitDenorm(CHOOSE d \in DenormInputs : TRUE)
    /\ InitSubst(CHOOSE t \in SubstInputs : TRUE)
    /\ InitCli(<<>>)
    /\ InitTools

NextPlaceholders ==
    \E h \in Handlers : Invoke(h) \/ CreateConstraint(h) \/ Return(h)

SpecPlaceholders == InitPlaceholders /\ [][NextPlaceholders]_vars

\* users of the pool are updated
InitCognitoUpdate ==
    /\ InitHandlers([h \in ConcHandlers |-> CHOOSE r \in ConcRequests : TRUE])
    /\ InitDenorm(CHOOSE d \in DenormInputs : TRUE)
    /\ InitSubst(CHOOSE t \in SubstInputs : TRUE)
    /\ InitCli(<<>>)
    /\ InitDelete
    /\ InitList(NoListArgs)
    /\ InitApply(NoApplyArgs)
    /\ InitValidate(NoValidatedTemplate)
    /\ \E enabled \in BOOLEAN : InitCognito(enabled)

NextCognitoUpdate == UpdateCognitoUser

SpecCognitoUpdate == InitCognitoUpdate /\ [][NextCognitoUpdate]_vars

(***************************************************************************)
(* Properties.                                                             *)
(***************************************************************************)
\* the constraint identifier an item key starts with
KeyConstraintId(key) == <<Head(key)>>

\* the keys of the items a handler has put, all invocations
LoggedKeys(h) == {item.constraintId : item \in put_log[h]}

\* every item ever put is in the table as it was put
PutItemsKept ==
    \A h \in ConcHandlers : \A item \in put_log[h] :
        /\ item.constraintId \in DOMAIN constraints_table
        /\ constraints_table[item.constraintId] = item

\* C1: when the write of the N-th constraint of a template fails, the
\* import stops there: the items of constraints 1..N-1 are in the table
\* (nothing deletes them, now or later), they are the only items the
\* invocation has put, and constraints N.. have no item.
C1_FailedWriteKeepsEarlierItems ==
    /\ PutItemsKept
    /\ \A h \in Handlers :
        fault[h] = "storage" =>
            LET created == created_constraint_ids[h]
                N == Len(created) + 1
            IN  /\ pc[h] = "done"
                /\ N <= Len(substituted_constraints[h])
                /\ Range(puts[h]) \subseteq DOMAIN constraints_table
                /\ {KeyConstraintId(k) : k \in Range(puts[h])} = Range(created)
                /\ \A j \in 1..(N - 1) :
                       \E k \in Range(puts[h]) :
                           /\ KeyConstraintId(k) = created[j]
                           /\ constraints_table[k].name =
                                  substituted_constraints[h][j].name

\* C1 witness: the write of the second of two constraints has failed
C1_Witness ==
    /\ fault["h1"] = "storage"
    /\ Len(created_constraint_ids["h1"]) = 1
    /\ Len(substituted_constraints["h1"]) = 2

\* the rules of template validation, stated on the request body
ViolatesTemplateRules(body) ==
    \/ ~HasVar(body.variableValues, ROLE_NAME)
    \/ \E i \in 1..Len(body.variables) :
           /\ body.variables[i].required
           /\ ~HasVar(body.variableValues, body.variables[i].name)
           /\ "default" \notin DOMAIN body.variables[i]
    \/ body.constraints = <<>>
    \/ \E i \in 1..Len(body.constraints) :
           LET c == body.constraints[i]
           IN  \/ c.objectType \notin ALLOWED_CONSTRAINT_OBJECT_TYPES
               \/ c.criteriaAnd = <<>> /\ c.criteriaOr = <<>>
               \/ \E x \in Range(c.criteriaAnd) \cup Range(c.criteriaOr) :
                      x.operator \notin ALLOWED_CONSTRAINT_OPERATORS
               \/ \E x \in Range(c.groupPermissions) :
                      \/ x.action \notin ALLOWED_CONSTRAINT_PERMISSIONS
                      \/ /\ "type" \in DOMAIN x
                         /\ x.type \notin ALLOWED_CONSTRAINT_PERMISSION_TYPES

\* the request reaches the parsing of the template
ReachesParse(event) ==
    /\ Len(event.tokens) > 0 /\ event.allowed
    /\ event.method = "POST"
    /\ event.body.kind = "template"

\* C2: a template that violates a validation rule is turned down before
\* the first storage write: the handler writes no item for it, wherever
\* the violating constraint sits and whatever the other constraints are,
\* and it answers with a validation error.
C2_ValidationFailureWritesNothing ==
    \A h \in Handlers :
        (ReachesParse(request[h]) /\ ViolatesTemplateRules(request[h].body)) =>
            /\ constraints_table = EmptyTable
            /\ put_count = 0
            /\ puts[h] = <<>>
            /\ pc[h] # "creating"
            /\ pc[h] = "done" => response[h].category = "validation_error"

\* C2 witness: a template whose first constraint is well-formed and whose
\* second has an operator outside the allowed set was turned down
C2_Witness ==
    /\ pc["h1"] = "done"
    /\ ReachesParse(request["h1"])
    /\ request["h1"].body.constraints =
           <<ConstraintGood, ConstraintBadOperator>>
    /\ HasVar(request["h1"].body.variableValues, ROLE_NAME)
    /\ HasVar(request["h1"].body.variableValues, DB)
    /\ response["h1"].category = "validation_error"
    /\ response["h1"].message.rule = "operator"

\* the variable names of the {{NAME}} tokens of a text: any stretch of one
\* or more word characters between "{{" and "}}"
TokensOf(s) ==
    {SubSeq(s, i + 2, j - 1) : <<i, j>> \in
        {<<i, j>> \in (1..Len(s)) \X (1..Len(s)) :
            /\ i + 2 < j
            /\ MatchesAt(s, i, <<"{", "{">>)
            /\ MatchesAt(s, j, <<"}", "}">>)
            /\ \A k \in (i + 2)..(j - 1) : IsWordChar(s[k])}}

\* the texts of a list of criteria or permissions
TextsOfList(l) ==
    UNION {UNION {IF k # "value" THEN {l[i][k]}
                  ELSE IF "str" \in DOMAIN l[i][k] THEN {l[i][k].str}
                  ELSE Range(l[i][k].list) : k \in DOMAIN l[i]} :
               i \in 1..Len(l)}

\* every text of a constraint list, at any depth
TextsOf(constraints) ==
    UNION {{constraints[i].name, constraints[i].description,
            constraints[i].objectType}
           \cup TextsOfList(constraints[i].criteriaAnd)
           \cup TextsOfList(constraints[i].criteriaOr)
           \cup TextsOfList(constraints[i].groupPermissions) :
               i \in 1..Len(constraints)}

\* the variable names of the tokens left in the substituted constraints
TokensLeft(h) ==
    UNION {TokensOf(t) : t \in TextsOf(substituted_constraints[h])}

\* the list is in strictly ascending order
Ascending(l) == \A i \in 1..(Len(l) - 1) : StrLess(l[i], l[i + 1])

InputGroupIds == {p.groupId : p \in Range(denorm_input.groupPermissions)}

InputUserIds == {p.userId : p \in Range(denorm_input.userPermissions)}

C5_BareItemOnlyWithoutGrantee ==
    denorm_items # <<>> =>
        IF denorm_input.groupPermissions = <<>>
           /\ denorm_input.userPermissions = <<>>
        THEN /\ Len(denorm_items) = 1
             /\ denorm_items[1].constraintId = denorm_input.identifier
             /\ "groupId" \notin DOMAIN denorm_items[1]
             /\ "userId" \notin DOMAIN denorm_items[1]
        ELSE \A i \in 1..Len(denorm_items) :
                 denorm_items[i].constraintId # denorm_input.identifier

\* C5 witness: a constraint without permissions was denormalized
C5_Witness ==
    /\ denorm_items # <<>>
    /\ denorm_input.groupPermissions = <<>>
    /\ denorm_input.userPermissions = <<>>

\* no put_item has replaced an item: the table has one item per put
NoItemOverwritten == Cardinality(DOMAIN constraints_table) = put_count

\* C6: the constraint identifiers generated over any sequence of imports
\* are pairwise distinct, whatever the names of the constraints, so a
\* second import of a template writes under new keys and overwrites no
\* item of the first.
C6_FreshIdentifiers ==
    /\ Cardinality(built_ids) = built_count
    /\ NoItemOverwritten
    /\ PutItemsKept
    /\ \A h \in Handlers :
           Range(created_constraint_ids[h]) \cap
               {KeyConstraintId(k) : k \in LoggedKeys(h) \ Range(puts[h])} = {}

\* C6 witness: the second import of a template has succeeded after the
\* first had written its items
C6_Witness ==
    /\ invocations = 2
    /\ pc["h1"] = "done"
    /\ response["h1"].category = "success"
    /\ Len(created_constraint_ids["h1"]) = 2
    /\ Cardinality(put_log["h1"]) = 4

\* C7: two imports that run concurrently never write the same item key:
\* the table is the union of the items each has put, no import overwrites
\* an item of the other.
C7_ConcurrentImportsDisjoint ==
    /\ LoggedKeys("h1") \cap LoggedKeys("h2") = {}
    /\ DOMAIN constraints_table = LoggedKeys("h1") \cup LoggedKeys("h2")
    /\ PutItemsKept
    /\ Cardinality(DOMAIN constraints_table) = put_count

\* C7 witness: both imports are inside their loops, each has written a
\* constraint and has one left
C7_Witness ==
    \A h \in ConcHandlers :
        /\ pc[h] = "creating"
        /\ Len(created_constraint_ids[h]) = 1
        /\ Len(substituted_constraints[h]) = 2

\* C8: when the write of constraint N fails, the result returned for the
\* import reports the constraints written before: its count and ID list
\* cover exactly constraints 1..N-1.
C8_FailureReportsCreated ==
    \A h \in Handlers :
        (pc[h] = "done" /\ fault[h] = "storage") =>
            /\ "constraintIds" \in DOMAIN response[h]
            /\ response[h].constraintIds = created_constraint_ids[h]
            /\ response[h].constraintsCreated = Len(created_constraint_ids[h])

\* C9: the category of every error response identifies its cause: a
\* validation failure gives a validation error, a storage failure a
\* general error, and an internal error is given for neither a storage
\* failure nor a fault of the input.
C9_ErrorCategoryMatchesCause ==
    \A h \in Handlers :
        pc[h] = "done" =>
            /\ fault[h] \in {"validation", "method", "body"} =>
                   response[h].category = "validation_error"
            /\ fault[h] = "storage" => response[h].category = "general_error"
            /\ response[h].category = "internal_error" =>
                   fault[h] \notin {"storage", "validation", "unreplaced",
                                    "method", "body"}

\* the position in the template of the constraint an item key belongs to,
\* 0 when the handler has not created it
CreatedIndex(h, key) ==
    IF KeyConstraintId(key) \in Range(created_constraint_ids[h])
    THEN CHOOSE j \in 1..Len(created_constraint_ids[h]) :
             created_constraint_ids[h][j] = KeyConstraintId(key)
    ELSE 0

\* C10: within one import the constraints are handled in template order,
\* one at a time: the j-th identifier created belongs to the j-th
\* constraint of the template, the items were put constraint after
\* constraint in that order, the items of every created constraint are all
\* in the table and the table holds no item of a batch that failed, no
\* constraint is built before the one ahead of it was written (at most one
\* constraint per invocation is built and not written: the one whose write
\* failed), and the constraintIds of the result are in template order.
C10_SequentialInTemplateOrder ==
    \A h \in Handlers :
        LET created == created_constraint_ids[h]
        IN  /\ Len(created) <= Len(substituted_constraints[h])
            /\ \A a, b \in 1..Len(puts[h]) :
                   a < b => /\ CreatedIndex(h, puts[h][a]) >= 1
                            /\ CreatedIndex(h, puts[h][a]) <=
                                   CreatedIndex(h, puts[h][b])
            /\ \A j \in 1..Len(created) :
                   \E k \in Range(puts[h]) :
                       /\ CreatedIndex(h, k) = j
                       /\ k \in DOMAIN constraints_table
                       /\ constraints_table[k].name =
                              substituted_constraints[h][j].name
            /\ DOMAIN constraints_table = LoggedKeys(h)
            /\ built_count <= put_count + invocations
            /\ (pc[h] = "done" /\ response[h].category = "success") =>
                   /\ response[h].constraintIds = created
                   /\ Len(created) = Len(substituted_constraints[h])

\* C10 witness: an import of two different constraints has succeeded
C10_Witness ==
    /\ pc["h1"] = "done"
    /\ response["h1"].category = "success"
    /\ Len(substituted_constraints["h1"]) = 2
    /\ substituted_constraints["h1"][1].name # substituted_constraints["h1"][2].name

\* C11: the outcome of the role lookup never changes the import.  Whatever
\* the roles table of an invocation was (not configured, raising, holding
\* the role or not), the invocation has substituted the constraints of its
\* request for the role of its request and was turned down only for what
\* the request itself has, with the response for that; an invocation that
\* no fault ended returns the success result for all constraints of its
\* template; and the lookup returns true when the roles table is not
\* configured or raises.
C11_RoleLookupNeverChangesImport ==
    \A h \in Handlers :
        pc[h] # "idle" =>
            /\ \A begun \in {begin_request(request[h])} :
                   /\ role_check[h].called <=> begun.fault = "none"
                   /\ substituted_constraints[h] = begun.substituted
                   /\ role_name[h] = begun.role_name
                   /\ begun.fault # "none" =>
                          /\ fault[h] = begun.fault
                          /\ response[h] = begun.response
                   /\ begun.fault = "none" =>
                          fault[h] \in {"none", "build", "storage"}
            /\ role_check[h].called =>
                   ((~role_check[h].roles_table.configured
                        \/ role_check[h].roles_table.raises)
                    => role_check[h].role_exists)
            /\ (pc[h] = "done" /\ fault[h] = "none") =>
                   /\ response[h] = success_response(created_constraint_ids[h])
                   /\ Len(created_constraint_ids[h])
                          = Len(request[h].body.constraints)

\* an import succeeded and wrote items although the lookup did not find the
\* role
C11_Witness ==
    \E h \in Handlers :
        /\ pc[h] = "done"
        /\ response[h].category = "success"
        /\ puts[h] # <<>>
        /\ role_check[h].called
        /\ ~role_check[h].role_exists

\* C12: in every item a template import has written, every group permission
\* has the ROLE_NAME value of the import as its groupId and the list of user
\* permissions is empty; an item keyed by a grantee carries that groupId and
\* no userId.
C12_PermissionsBoundToRole ==
    \A h \in Handlers :
        \A item \in put_log[h] :
            LET role == VarValue(request[h].body.variableValues, ROLE_NAME)
                group_permissions == item.groupPermissions.json
            IN  /\ \A k \in 1..Len(group_permissions) :
                       group_permissions[k].groupId = role
                /\ item.userPermissions.json = <<>>
                /\ "userId" \notin DOMAIN item
                /\ "groupId" \in DOMAIN item => item.groupId = role

\* an import has written an item of a constraint with two group permissions
C12_Witness ==
    \E h \in Handlers :
        \E item \in put_log[h] :
            /\ "groupId" \in DOMAIN item
            /\ Len(item.groupPermissions.json) = 2

\* the request body with its constraints as the substitution leaves them,
\* the values those of the validated request
SubstitutedBody(body) ==
    [body EXCEPT !.constraints =
        substitute_variables(body.constraints,
                             validate_template_import(body).values)]

\* the constraints as the substitution leaves them violate a rule
SubstitutedViolates(body) ==
    \E substituted \in {SubstitutedBody(body)} :
        ViolatesTemplateRules(substituted)

\* C13 as claimed: the validation is applied to the substituted
\* constraints, so that a request whose substituted constraints satisfy the
\* rules is not answered with a validation error.
C13_ValidatedAfterSubstitution ==
    \A h \in Handlers :
        (/\ pc[h] = "done"
         /\ ReachesParse(request[h])
         /\ ~SubstitutedViolates(request[h].body)) =>
            response[h].category # "validation_error"

\* C13, amended: the validation is applied before the substitution, to the
\* constraints as the template has them.  A template with a field of the
\* closed vocabulary written as a placeholder is turned down with a
\* validation error and nothing is written, also when the value supplied
\* for the placeholder is an allowed word; the constraints the loop builds
\* and writes are those of a template that satisfied the rules as written.
C13_ValidatedBeforeSubstitution ==
    \A h \in Handlers :
        /\ (/\ ReachesParse(request[h])
            /\ ViolatesTemplateRules(request[h].body)
            /\ ~SubstitutedViolates(request[h].body)) =>
               /\ pc[h] # "creating"
               /\ puts[h] = <<>>
               /\ put_log[h] = {}
               /\ pc[h] = "done" => response[h].category = "validation_error"
        /\ (pc[h] = "creating" \/ put_log[h] # {}) =>
               ~ViolatesTemplateRules(request[h].body)

\* a template whose object type is a placeholder with the allowed value
\* "asset" was turned down by the validation
C13_Witness ==
    \E h \in Handlers :
        /\ pc[h] = "done"
        /\ ReachesParse(request[h])
        /\ ConstraintPlaceholderType \in Range(request[h].body.constraints)
        /\ ~SubstitutedViolates(request[h].body)
        /\ response[h].category = "validation_error"

\* the criteria of a written item, of both lists
CriteriaOf(item) == Range(item.criteriaAnd.json) \cup Range(item.criteriaOr.json)

\* C14: every item a template import has written satisfies the closed
\* vocabulary after the substitution: the object type is an allowed object
\* type, every operator an allowed operator, every permission an allowed
\* permission of an allowed type, and the two criteria lists are not both
\* empty, whatever values the variables have.
C14_WrittenItemsInVocabulary ==
    \A h \in Handlers :
        \A item \in put_log[h] :
            /\ item.objectType \in ALLOWED_CONSTRAINT_OBJECT_TYPES
            /\ \A x \in CriteriaOf(item) :
                   x.operator \in ALLOWED_CONSTRAINT_OPERATORS
            /\ \A p \in Range(item.groupPermissions.json) :
                   /\ p.permission \in ALLOWED_CONSTRAINT_PERMISSIONS
                   /\ p.permissionType \in ALLOWED_CONSTRAINT_PERMISSION_TYPES
            /\ CriteriaOf(item) # {}

\* an item was written by an import whose variables include one named as
\* the allowed object type, and the substitution changed its criterion value
C14_Witness ==
    \E h \in Handlers :
        \E item \in put_log[h] :
            /\ HasVar(request[h].body.variableValues, asset)
            /\ \E x \in CriteriaOf(item) : x.value = [str |-> <<"p", "1">>]
            /\ item.groupPermissions.json # <<>>

\* the text t occurs in the text s
Contains(s, t) == \E i \in 1..Len(s) : MatchesAt(s, i, t)

\* the texts of the substitution's template that carry the drawn text, each
\* with what the substitution made of it: <<raw, substituted>>
SubstTextPairs ==
    LET c == subst_input.constraints[1]
        d == subst_output[1]
        v == c.criteriaAnd[1].value
        w == d.criteriaAnd[1].value
    IN  {<<c.name, d.name>>}
        \cup (IF "str" \in DOMAIN v THEN {<<v.str, w.str>>}
              ELSE {<<v.list[i], w.list[i]>> : i \in 1..Len(v.list)})

\* C15 as claimed: the text inserted for a variable is not scanned again.
\* When a text of the template is the placeholder of a variable whose value
\* contains the placeholder of another variable of the map, the substituted
\* text is that value as it is, the other placeholder in it, whatever the
\* order of the map.
C15_InsertedValueNotRescanned ==
    subst_pc # "input" =>
        \A pair \in SubstTextPairs :
            \A k, j \in 1..Len(subst_input.variableValues) :
                LET var_values == subst_input.variableValues
                IN  (/\ pair[1] = Placeholder(var_values[k][1])
                     /\ Contains(var_values[k][2],
                                 Placeholder(var_values[j][1]))) =>
                        pair[2] = var_values[k][2]

\* the names of the variables a template declares
DeclaredNames(template) ==
    {template.variables[i].name : i \in 1..Len(template.variables)}

\* the names variableValues has a value for
SuppliedNames(template) ==
    {template.variableValues[i][1] : i \in 1..Len(template.variableValues)}

\* C16 as claimed: when every declared variable has a value in
\* variableValues, no token is left in the substituted constraints.
C16_DeclaredValuesLeaveNoToken ==
    (/\ subst_pc = "scanned"
     /\ DeclaredNames(subst_input) \subseteq SuppliedNames(subst_input)) =>
        subst_unreplaced = {}

\* the positions of s that a {{NAME}} token covers
TokenPositions(s) ==
    UNION {i..(j + 1) : <<i, j>> \in
        {<<i, j>> \in (1..Len(s)) \X (1..Len(s)) :
            /\ i + 2 < j
            /\ MatchesAt(s, i, <<"{", "{">>)
            /\ MatchesAt(s, j, <<"}", "}">>)
            /\ \A k \in (i + 2)..(j - 1) : IsWordChar(s[k])}}

\* no brace in s
BraceFree(s) == \A i \in 1..Len(s) : s[i] \notin {"{", "}"}

\* every token of the template's constraints names a supplied variable, no
\* brace stands outside these tokens, and no supplied value has a brace
PlaceholdersSupplied(template) ==
    /\ \A t \in TextsOf(template.constraints) :
           /\ TokensOf(t) \subseteq SuppliedNames(template)
           /\ \A i \in 1..Len(t) :
                  t[i] \in {"{", "}"} => i \in TokenPositions(t)
    /\ \A k \in 1..Len(template.variableValues) :
           BraceFree(template.variableValues[k][2])

\* C16, amended: when every {{NAME}} token of the constraints names a
\* variable that has a value in variableValues, no brace stands outside
\* these tokens and no value contains a brace, find_unreplaced_variables
\* finds nothing in the output of substitute_variables.
C16_SuppliedPlaceholdersLeaveNoToken ==
    (subst_pc = "scanned" /\ PlaceholdersSupplied(subst_input)) =>
        /\ subst_unreplaced = {}
        /\ \A t \in TextsOf(subst_output) : BraceFree(t)

\* a text with the placeholders of two supplied variables was substituted
\* and scanned
C16_Witness ==
    /\ subst_pc = "scanned"
    /\ PlaceholdersSupplied(subst_input)
    /\ \E t \in TextsOf(subst_input.constraints) :
           Cardinality(TokensOf(t)) = 2

\* C17 as claimed: after the validation of a template has succeeded, every
\* declared variable that has a default and was not supplied has its
\* default in variableValues, and the substitution has replaced its token.
C17_DefaultsBackFilled ==
    \A h \in Handlers :
        (/\ pc[h] # "idle"
         /\ ReachesParse(request[h])
         /\ validate_template_import(request[h].body).error = NoError) =>
            LET body   == request[h].body
                values == validate_template_import(body).values
            IN  \A i \in 1..Len(body.variables) :
                    LET var_def == body.variables[i]
                    IN  (/\ "default" \in DOMAIN var_def
                         /\ ~HasVar(body.variableValues, var_def.name)) =>
                            /\ HasVar(values, var_def.name)
                            /\ VarValue(values, var_def.name) = var_def.default
                            /\ var_def.name \notin TokensLeft(h)

\* C18: a template whose variableValues has no ROLE_NAME is rejected with
\* an error that names ROLE_NAME, whatever its constraints and variables
\* are.  The import API answers it with the validation error of the
\* ROLE_NAME rule and writes nothing; the CLI command exits with code 1 and
\* the ROLE_NAME error and does not call the import API.
C18_MissingRoleNameRejected ==
    /\ \A h \in Handlers :
           (/\ pc[h] # "idle"
            /\ ReachesParse(request[h])
            /\ ~HasVar(request[h].body.variableValues, ROLE_NAME)) =>
               /\ pc[h] = "done"
               /\ response[h] = [category |-> "validation_error",
                                 message  |-> [rule |-> "role_name_missing"]]
               /\ put_log[h] = {}
    /\ (/\ cli_pc = "exited"
        /\ "variableValues" \in DOMAIN cli_input
        /\ ~HasVar(cli_input.variableValues, ROLE_NAME)) =>
           /\ cli_result.exit_code = 1
           /\ cli_result.error = "Missing 'ROLE_NAME' in variableValues"
           /\ ~cli_result.api_called
           /\ api_calls = <<>>

\* a template with a well-formed constraint and without ROLE_NAME was
\* turned down by the import API and by the CLI command
C18_Witness ==
    /\ \E h \in Handlers :
           /\ pc[h] = "done"
           /\ ~HasVar(request[h].body.variableValues, ROLE_NAME)
           /\ request[h].body.constraints = <<ConstraintGood>>
    /\ cli_pc = "exited"
    /\ "variableValues" \in DOMAIN cli_input
    /\ ~HasVar(cli_input.variableValues, ROLE_NAME)
    /\ "constraints" \in DOMAIN cli_input
    /\ cli_input.constraints = <<ConstraintGood>>

\* C19: a successful import of a template with n constraints answers with
\* constraintsCreated = n and n distinct identifiers, the i-th that of the
\* i-th constraint of the template, and the table holds the items of each:
\* for a constraint with a group permission the one item keyed
\* <id>#group#<ROLE_NAME>, which carries the constraint as substituted.
C19_SuccessReportsEveryConstraint ==
    \A h \in Handlers :
        (pc[h] = "done" /\ response[h].category = "success") =>
            LET ids  == response[h].constraintIds
                n    == Len(request[h].body.constraints)
                role == VarValue(request[h].body.variableValues, ROLE_NAME)
            IN  /\ response[h].success
                /\ response[h].constraintsCreated = n
                /\ Len(ids) = n
                /\ \A i, j \in 1..n : i # j => ids[i] # ids[j]
                /\ \A i \in 1..n :
                       LET c    == request[h].body.constraints[i]
                           keys == {k \in DOMAIN constraints_table :
                                        KeyConstraintId(k) = ids[i]}
                       IN  /\ keys # {}
                           /\ \A k \in keys :
                                  constraints_table[k].name =
                                      substituted_constraints[h][i].name
                           /\ c.groupPermissions # <<>> =>
                                  keys = {ids[i] \o <<"#", "g", "r", "o", "u",
                                                        "p", "#">> \o role}

\* an import of two constraints succeeded, one of them with group
\* permissions
C19_Witness ==
    \E h \in Handlers :
        /\ pc[h] = "done"
        /\ response[h].category = "success"
        /\ Len(response[h].constraintIds) = 2
        /\ request[h].body.constraints = <<ConstraintNoGrantee, ConstraintGood>>

\* the parts of a template the CLI command requires that template_data
\* lacks, each with the error message that names it
MissingParts(template_data) ==
    (IF DOMAIN template_data = {}
     THEN {"Template data is empty"} ELSE {})
    \cup (IF "variableValues" \notin DOMAIN template_data
          THEN {"Missing 'variableValues' field in template data"} ELSE {})
    \cup (IF /\ "variableValues" \in DOMAIN template_data
             /\ \A i \in DOMAIN template_data.variableValues :
                    template_data.variableValues[i][1] # ROLE_NAME
          THEN {"Missing 'ROLE_NAME' in variableValues"} ELSE {})
    \cup (IF "constraints" \notin DOMAIN template_data
          THEN {"Missing or empty 'constraints' field in template data"}
          ELSE IF Len(template_data.constraints) = 0
          THEN {"Missing or empty 'constraints' field in template data"}
          ELSE {})

\* C21: when the parsed template is empty, has no variableValues, has no
\* ROLE_NAME in variableValues, or has a missing or empty constraints list,
\* the CLI command "role constraint template import" exits with code 1 and
\* an error that names a part that is missing, and it has not called the
\* import API.
C21_IncompleteTemplateNeverSent ==
    (cli_pc = "exited" /\ MissingParts(cli_input) # {}) =>
        /\ cli_result.exit_code = 1
        /\ cli_result.error \in MissingParts(cli_input)
        /\ ~cli_result.api_called
        /\ api_calls = <<>>

\* the command ran on a template that has ROLE_NAME and an empty
\* constraints list
C21_Witness ==
    /\ cli_pc = "exited"
    /\ "variableValues" \in DOMAIN cli_input
    /\ HasVar(cli_input.variableValues, ROLE_NAME)
    /\ "constraints" \in DOMAIN cli_input
    /\ cli_input.constraints = <<>>

\* C22: the CLI command "role constraint delete" calls the delete API only
\* after confirmation.  A run without --confirm calls nothing and exits
\* with a non-zero code and an error; a run with --confirm whose prompt is
\* declined calls nothing and exits with code 0; a run calls the API, and
\* then exactly once and with its --constraint-id, only when --confirm is
\* given and the prompt is accepted or, under --json-output, not shown.
C22_DeleteOnlyAfterConfirmation ==
    delete_runs > 0 =>
        /\ ~delete_run.confirm =>
               /\ delete_result.calls = <<>>
               /\ delete_result.exit_code # 0
               /\ delete_result.error # ""
        /\ (/\ delete_run.confirm
            /\ ~delete_run.json_output
            /\ delete_run.answer = "n") =>
               /\ delete_result.calls = <<>>
               /\ delete_result.exit_code = 0
        /\ delete_result.calls # <<>> =>
               /\ delete_result.calls = <<delete_run.constraint_id>>
               /\ delete_run.confirm
               /\ delete_run.json_output \/ delete_run.answer = "y"
               /\ delete_result.prompted = ~delete_run.json_output
        /\ Len(delete_calls) <= delete_runs

\* a run with --confirm was declined at the prompt after an earlier run
\* had deleted a constraint
C22_Witness ==
    /\ delete_runs = 2
    /\ delete_run.confirm
    /\ ~delete_run.json_output
    /\ delete_run.answer = "n"
    /\ Len(delete_calls) = 1

\* C23: with --auto-paginate, --max-items (10000 when absent) is the
\* maximum total number of items fetched, whatever pages the API returns:
\* the loop fetches no page once the limit is reached, the result holds at
\* most max-items items, and it carries the note "Reached maximum of N
\* items" when the limit was reached and a NextToken remains.
C23_MaxItemsBoundsResult ==
    (list_args.auto_paginate /\ ~list_args.starting_token) =>
        LET limit == max_total_items(list_args.max_items)
        IN  /\ list_pc = "fetching" => total_fetched < limit
            /\ list_pc = "exited" =>
                   /\ Len(list_result.Items) <= limit
                   /\ (total_fetched >= limit /\ next_token) =>
                          /\ "note" \in DOMAIN list_result
                          /\ list_result.note =
                                 <<"Reached maximum of", limit, "items">>

\* the <<key, value>> pairs the sources of a command line supply, in the
\* order --variables-file, --variables, each --var
Supplied(args) ==
    LET pairs(source) == IF source.kind = "object" THEN source.value ELSE <<>>
        wellformed    == SelectSeq(args.var, has_equals)
    IN  pairs(args.variables_file) \o pairs(args.variables)
            \o [i \in 1..Len(wellformed) |-> split_equals(wellformed[i])]

\* the value the last of the pairs with this key has
LastSupplied(pairs, key) ==
    LET last == CHOOSE i \in 1..Len(pairs) :
                    /\ pairs[i][1] = key
                    /\ \A j \in (i + 1)..Len(pairs) : pairs[j][1] # key
    IN  pairs[last][2]

\* resolve_variables returned: the result has the keys the sources supply
\* and ROLE_NAME, each once, every key but ROLE_NAME with the value of the
\* last source that supplies it, and ROLE_NAME with the value of
\* --role-name
MergedLaterOverEarlier ==
    tool_var_values # <<>> =>
        LET pairs == Supplied(apply_args)
            keys  == {pairs[i][1] : i \in 1..Len(pairs)} \cup {ROLE_NAME}
        IN  /\ {tool_var_values[k][1] : k \in 1..Len(tool_var_values)} = keys
            /\ Len(tool_var_values) = Cardinality(keys)
            /\ \A k \in 1..Len(tool_var_values) :
                   tool_var_values[k][2] =
                       IF tool_var_values[k][1] = ROLE_NAME
                       THEN apply_args.role_name
                       ELSE LastSupplied(pairs, tool_var_values[k][1])

\* a vamscli command runs only after resolve_variables returned
CommandsAfterResolution ==
    vamscli_log # <<>> => tool_var_values # <<>>

\* C24 as stated: resolve_variables merges its sources with later ones
\* overriding earlier ones and ROLE_NAME equal to --role-name, and a
\* ROLE_NAME that any source supplies with another value than --role-name
\* makes the tool exit with an error before any vamscli command runs.
C24_AnySourceRoleNameConflictExits ==
    /\ MergedLaterOverEarlier
    /\ CommandsAfterResolution
    /\ apply_pc # "start" =>
           LET pairs == Supplied(apply_args)
           IN  (\E i \in 1..Len(pairs) :
                    /\ pairs[i][1] = ROLE_NAME
                    /\ pairs[i][2] # apply_args.role_name) =>
                   /\ apply_pc = "exited"
                   /\ apply_exit.exit_code = 1
                   /\ vamscli_log = <<>>

\* C24, amended: resolve_variables merges its sources with later ones
\* overriding earlier ones and ROLE_NAME equal to --role-name, and the
\* tool exits with an error before any vamscli command runs when the
\* ROLE_NAME of the merged sources, that of the last source that supplies
\* one, differs from --role-name.
C24_MergedRoleNameConflictExits ==
    /\ MergedLaterOverEarlier
    /\ CommandsAfterResolution
    /\ apply_pc # "start" =>
           LET pairs == Supplied(apply_args)
           IN  (/\ \E i \in 1..Len(pairs) : pairs[i][1] = ROLE_NAME
                /\ LastSupplied(pairs, ROLE_NAME) # apply_args.role_name) =>
                   /\ apply_pc = "exited"
                   /\ apply_exit.exit_code = 1
                   /\ vamscli_log = <<>>

\* the tool ran a vamscli command although the variables file gave another
\* ROLE_NAME than --role-name: --variables gave it again, equal to
\* --role-name, and the second of two --var DB=... gave the value of DB
C24_Witness ==
    /\ vamscli_log # <<>>
    /\ apply_args.variables_file.kind = "object"
    /\ HasVar(apply_args.variables_file.value, ROLE_NAME)
    /\ VarValue(apply_args.variables_file.value, ROLE_NAME) = OtherRoleName
    /\ apply_args.variables.kind = "object"
    /\ HasVar(apply_args.variables.value, ROLE_NAME)
    /\ VarValue(tool_var_values, ROLE_NAME) = apply_args.role_name
    /\ HasVar(tool_var_values, DB)
    /\ VarValue(tool_var_values, DB) = <<"p", "=">>

\* the steps of create mode, in their order
CreateModeCommands ==
    <<"role create", "role constraint template import", "role user create">>

\* C25: in create mode without --dry-run the tool runs its vamscli
\* commands in the order create role, import constraints, assign user; the
\* import runs only after "role create" returned 0 or reported that the
\* role already exists, and when the creation failed otherwise the tool has
\* exited with an error after that one command.  In delete mode the only
\* command is the deletion of the role.
C25_CreateImportAssignInOrder ==
    /\ (~apply_args.delete /\ ~apply_args.dry_run) =>
           /\ Len(vamscli_log) <= Len(CreateModeCommands)
           /\ \A i \in 1..Len(vamscli_log) :
                  vamscli_log[i].command = CreateModeCommands[i]
           /\ Len(vamscli_log) >= 2 =>
                  /\ ~vamscli_log[1].outcome.raised
                  /\ \/ vamscli_log[1].outcome.returncode = 0
                     \/ vamscli_log[1].outcome.output = "already exists"
           /\ (/\ vamscli_log # <<>>
               /\ \/ vamscli_log[1].outcome.raised
                  \/ /\ vamscli_log[1].outcome.returncode # 0
                     /\ vamscli_log[1].outcome.output # "already exists") =>
                  /\ Len(vamscli_log) = 1
                  /\ apply_pc = "exited"
                  /\ apply_exit.exit_code # 0
    /\ apply_args.delete =>
           /\ Len(vamscli_log) <= 1
           /\ \A i \in 1..Len(vamscli_log) :
                  vamscli_log[i].command = "role delete"

\* the tool has run its three commands, the first of which reported that
\* the role already exists
C25_Witness ==
    /\ ~apply_args.delete
    /\ Len(vamscli_log) = 3
    /\ vamscli_log[1].outcome.returncode = 1
    /\ vamscli_log[1].outcome.output = "already exists"
    /\ apply_pc = "exited"

\* <<error>> when the rule is violated, nothing when it is not
Violation(violated, error) == IF violated THEN <<error>> ELSE <<>>

RECURSIVE Flatten(_)
\* the lists of a list, one after the other
Flatten(lists) ==
    IF lists = <<>> THEN <<>> ELSE Head(lists) \o Flatten(Tail(lists))

\* every rule a constraint violates, in the order objectType, criteria
\* presence, operators of criteriaAnd, operators of criteriaOr, and for
\* each permission its action, then its type
ConstraintViolations(c) ==
    LET operators(criteria) ==
            Flatten([k \in 1..Len(criteria) |->
                Violation(criteria[k].operator
                              \notin ALLOWED_CONSTRAINT_OPERATORS,
                          [rule  |-> "operator",
                           value |-> criteria[k].operator])])
        permission(perm) ==
            Violation(perm.action \notin ALLOWED_CONSTRAINT_PERMISSIONS,
                      [rule |-> "permission_action", value |-> perm.action])
            \o Violation(/\ "type" \in DOMAIN perm
                         /\ perm.type
                                \notin ALLOWED_CONSTRAINT_PERMISSION_TYPES,
                         [rule  |-> "permission_type",
                          value |-> dict_get(perm, "type")])
    IN  Violation(c.objectType \notin ALLOWED_CONSTRAINT_OBJECT_TYPES,
                  [rule |-> "objectType", value |-> c.objectType])
        \o Violation(Len(c.criteriaAnd) + Len(c.criteriaOr) = 0,
                     [rule |-> "criteria", name |-> c.name])
        \o operators(c.criteriaAnd)
        \o operators(c.criteriaOr)
        \o Flatten([k \in 1..Len(c.groupPermissions) |->
                       permission(c.groupPermissions[k])])

\* every rule a parsed request violates, in the order ROLE_NAME present,
\* ROLE_NAME format, required variables as declared, constraints
\* non-empty, constraints in template order
RuleViolations(values) ==
    LET vv       == values.variableValues
        supplied == {vv[k][1] : k \in 1..Len(vv)}
        filled(k) ==
            \E j \in 1..(k - 1) :
                /\ values.variables[j].name = values.variables[k].name
                /\ values.variables[j].required
                /\ "default" \in DOMAIN values.variables[j]
        variable(k) ==
            Violation(/\ values.variables[k].required
                      /\ "default" \notin DOMAIN values.variables[k]
                      /\ values.variables[k].name \notin supplied
                      /\ ~filled(k),
                      [rule |-> "required_variable",
                       name |-> values.variables[k].name])
    IN  Violation(ROLE_NAME \notin supplied, [rule |-> "role_name_missing"])
        \o Violation(\E k \in 1..Len(vv) :
                         /\ vv[k][1] = ROLE_NAME
                         /\ ~object_name_valid(vv[k][2]),
                     [rule |-> "role_name_format"])
        \o Flatten([k \in 1..Len(values.variables) |-> variable(k)])
        \o Violation(Len(values.constraints) = 0, [rule |-> "no_constraints"])
        \o Flatten([i \in 1..Len(values.constraints) |->
                       ConstraintViolations(values.constraints[i])])

\* C26: template validation is fail-fast: it raises one error, that of the
\* first rule the request violates in the order ROLE_NAME present,
\* ROLE_NAME format, required variables in declaration order, constraint
\* list non-empty, then for each constraint in template order its
\* objectType, criteria presence, operators (criteriaAnd before
\* criteriaOr) and permissions (action before type); it raises none when
\* no rule is violated.
C26_FirstViolatedRuleRaised ==
    validate_pc = "validated" =>
        LET violations == RuleViolations(validate_values)
        IN  validate_result.error =
                IF Len(violations) = 0 THEN NoError ELSE violations[1]

\* a request was validated whose one permission has a wrong action and a
\* wrong type, and whose second constraint violates the objectType rule
C26_Witness ==
    /\ validate_pc = "validated"
    /\ validate_result.error = [rule |-> "permission_action", value |-> READ]
    /\ Len(RuleViolations(validate_values)) >= 4
    /\ Len(validate_values.constraints) = 2
    /\ validate_values.constraints[1].groupPermissions =
           <<[action |-> READ, type |-> ask]>>
    /\ validate_values.constraints[2].objectType = car

\* the constraints of a request body that have a permission without type
OmitsType(body) ==
    {i \in 1..Len(body.constraints) :
        \E x \in Range(body.constraints[i].groupPermissions) :
            "type" \notin DOMAIN x}

\* C27: a template permission that gives only action is imported as an
\* allow permission.  A request that violates no rule and has such a
\* permission passes validation, and unless a placeholder is left or a
\* write fails, the import does not fail at build time: it succeeds, at
\* whatever position the constraint is, and the items of the constraint
\* carry the permission with permissionType "allow".
C27_OmittedTypeImportedAsAllow ==
    \A h \in Handlers :
        (/\ pc[h] = "done"
         /\ ReachesParse(request[h])
         /\ ~ViolatesTemplateRules(request[h].body)
         /\ OmitsType(request[h].body) # {}) =>
            /\ response[h].category # "validation_error"
            /\ fault[h] \notin {"unreplaced", "storage"} =>
                   /\ fault[h] # "build"
                   /\ response[h].category = "success"
                   /\ \A i \in OmitsType(request[h].body) :
                          \E item \in put_log[h] :
                              /\ KeyConstraintId(item.constraintId) =
                                     response[h].constraintIds[i]
                              /\ \A k \in 1..Len(item.groupPermissions.json) :
                                     "type" \notin DOMAIN
                                         request[h].body.constraints[i]
                                             .groupPermissions[k] =>
                                         item.groupPermissions.json[k]
                                             .permissionType = allow

\* the names between "{{" and "}}" in a text, of whatever characters but
\* braces
PlaceholderNames(s) ==
    {SubSeq(s, i + 2, j - 1) : <<i, j>> \in
        {<<i, j>> \in (1..Len(s)) \X (1..Len(s)) :
            /\ i + 2 < j
            /\ MatchesAt(s, i, <<"{", "{">>)
            /\ MatchesAt(s, j, <<"}", "}">>)
            /\ \A k \in (i + 2)..(j - 1) : s[k] \notin {"{", "}"}}}

\* the texts of a written item
ItemTexts(item) ==
    {item.name, item.description, item.objectType}
    \cup TextsOfList(item.criteriaAnd.json)
    \cup TextsOfList(item.criteriaOr.json)
    \cup TextsOfList(item.groupPermissions.json)

\* C28: after a successful import no field of a written item has an
\* unresolved placeholder {{...}} that the template had, whatever
\* characters its name is made of and at whatever depth the text sits.
C28_NoPlaceholderWritten ==
    \A h \in Handlers :
        (pc[h] = "done" /\ response[h].category = "success") =>
            LET template ==
                    UNION {PlaceholderNames(t) :
                               t \in TextsOf(request[h].body.constraints)}
            IN  \A item \in put_log[h] :
                    \A t \in ItemTexts(item) :
                        PlaceholderNames(t) \cap template = {}

\* C29: every constraint an import has written occupies exactly one item:
\* the j-th put of the invocation is the one item of the j-th constraint,
\* keyed <id>#group#<ROLE_NAME> when the template constraint has a group
\* permission and by the bare <id> when it has none; no key of the table
\* has "#user#" in it; every put adds an item to the table, and a
\* successful import has put as many items as the template has
\* constraints.
C29_OneItemPerConstraint ==
    /\ \A h \in Handlers :
           LET ids == created_constraint_ids[h]
           IN  /\ Len(puts[h]) = Len(ids)
               /\ \A j \in 1..Len(ids) :
                      LET c    == request[h].body.constraints[j]
                          role == VarValue(request[h].body.variableValues,
                                           ROLE_NAME)
                      IN  /\ puts[h][j] =
                                 IF Len(c.groupPermissions) > 0
                                 THEN ids[j] \o <<"#", "g", "r", "o", "u",
                                                  "p", "#">> \o role
                                 ELSE ids[j]
                          /\ puts[h][j] \in DOMAIN constraints_table
                          /\ {k \in DOMAIN constraints_table :
                                 KeyConstraintId(k) = ids[j]} = {puts[h][j]}
               /\ (pc[h] = "done" /\ response[h].category = "success") =>
                      Len(puts[h]) = Len(request[h].body.constraints)
    /\ \A k \in DOMAIN constraints_table :
           ~Contains(k, <<"#", "u", "s", "e", "r", "#">>)
    /\ Cardinality(DOMAIN constraints_table) = put_count

\* the second import of a template with a constraint without permissions
\* and one with permissions has succeeded: the table has four items
C29_Witness ==
    \E h \in Handlers :
        /\ pc[h] = "done"
        /\ response[h].category = "success"
        /\ invocations = 2
        /\ request[h].body.constraints = <<ConstraintNoGrantee, ConstraintGood>>
        /\ Cardinality(DOMAIN constraints_table) = 4

\* the phone value a request carries, "" when it carries none
CarriedPhone(update_data) ==
    IF "phone" \in DOMAIN update_data /\ update_data.phone # ""
    THEN update_data.phone
    ELSE IF "phoneNumber" \in DOMAIN update_data
         THEN update_data.phoneNumber
         ELSE ""

\* the call has the attribute with the value
Sets(call, name, value) ==
    \E i \in 1..Len(call.UserAttributes) :
        call.UserAttributes[i] = [Name |-> name, Value |-> value]

\* the last update reached the user pool without a phone value
UpdatedWithoutPhone ==
    /\ cognito_updates > 0
    /\ cognito_enabled
    /\ CarriedPhone(cognito_update.update_data) = ""

\* C30: an update without a phone value sets phone_number to the empty
\* text and phone_number_verified to "false" in the one call that sets the
\* email, and a successful one leaves the user with no phone number;  a
\* successful update leaves a user's phone number as it was only when the
\* request carries that phone value.
C30_UpdateWithoutPhoneClearsPhone ==
    /\ [](UpdatedWithoutPhone =>
            LET call == cognito_calls[Len(cognito_calls)]
                data == cognito_update.update_data
                user_id == cognito_update.user_id
            IN  /\ Len(cognito_calls) = cognito_updates
                /\ call.Username = user_id
                /\ Sets(call, "phone_number", "")
                /\ Sets(call, "phone_number_verified", "false")
                /\ ("email" \in DOMAIN data /\ data.email # ""
                        => /\ Sets(call, "email", data.email)
                           /\ Sets(call, "email_verified", "true"))
                /\ (cognito_result.success
                        => /\ cognito_users[user_id].phone_number = ""
                           /\ cognito_users[user_id].phone_number_verified
                                  = "false"))
    /\ [][(/\ cognito_updates' = cognito_updates + 1
           /\ cognito_result'.success
           /\ cognito_users[cognito_update'.user_id].phone_number # ""
           /\ cognito_users'[cognito_update'.user_id].phone_number
                  = cognito_users[cognito_update'.user_id].phone_number)
             => CarriedPhone(cognito_update'.update_data)
                    = cognito_users[cognito_update'.user_id].phone_number]_vars

\* the first update gives the user with the phone number p1 a new email and
\* carries no phone value: the user has the email and no phone number
C30_Witness ==
    /\ cognito_updates = 1
    /\ cognito_update = [user_id |-> "u1", update_data |-> [email |-> "e2"]]
    /\ cognito_result.success
    /\ cognito_users["u1"].email = "e2"
    /\ cognito_users["u1"].phone_number = ""
    /\ cognito_users["u1"].phone_number_verified = "false"

=============================================================================
